---- MODULE Spec2Model ----
(***************************************************************************)
(* A model of the streamduck control core: the per-device panel stack,     *)
(* the key dispatch loop (streamduck-core/src/core/mod.rs), the folder     *)
(* module's navigation (streamduck-core/src/modules/folders.rs), the       *)
(* daemon's device-config request handlers                                 *)
(* (streamduck-daemon/src/daemon_data/config.rs) and the client's          *)
(* response correlation (streamduck-client/src/util.rs).                   *)
(***************************************************************************)
EXTENDS Integers, Sequences, FiniteSets, TLC

(***************************************************************************)
(* Bounds of the model.                                                    *)
(***************************************************************************)
\* key transitions the device worker puts on the inbound channel
MaxEvents == 2
\* operations performed by client handlers and the device manager
MaxOps == 2
\* inbound packets the daemon handles
MaxRequests == 2
\* chunks that arrive on a client connection
MaxStream == 3

(***************************************************************************)
(* Values.                                                                 *)
(***************************************************************************)
Serials == {"s1", "s2", "s3"}
\* the key indexes of a device
Keys == 0 .. 2
\* an absent Option / an absent component
None == "<none>"
\* folder ids that occur in button components; "" is the id a new
\* FolderLinkComponent is given (folders.rs:115-117), "f9" is stored nowhere
FolderIds == {"f1", "f2", "f9", ""}

\* a Button, reduced to the three components of the folder module:
\* folder = id of its FolderComponent, name = the component's name,
\* link = id of its FolderLinkComponent, up = it holds a FolderUpComponent
Btn(f, n, l, u) == [folder |-> f, name |-> n, link |-> l, up |-> u]
FolderBtn(id, n) == Btn(id, n, None, FALSE)
LinkBtn(id) == Btn(None, None, id, FALSE)
UpBtn == Btn(None, None, None, TRUE)

\* Panel<T>: display name, data, buttons (a map from key to button)
Panel(n, d, b) == [display_name |-> n, data |-> d, buttons |-> b]

\* a device configuration: root layout, brightness, the folder module's
\* plugin data (folder id -> value-form panel)
ConfigA ==
    [serial |-> "",
     layout |-> Panel("root", None,
                      (0 :> FolderBtn("f1", "One")) @@ (1 :> LinkBtn("f2"))
                      @@ (2 :> UpBtn)),
     brightness |-> 50,
     folders |-> ("f1" :> Panel("Folder", None,
                                (0 :> FolderBtn("f2", "Two"))
                                @@ (1 :> LinkBtn("f1")) @@ (2 :> UpBtn)))
              @@ ("f2" :> Panel("Folder", None,
                                (0 :> FolderBtn("f9", "Gone"))
                                @@ (1 :> LinkBtn("f1")) @@ (2 :> UpBtn)))]

\* another device configuration
ConfigB ==
    [serial |-> "",
     layout |-> Panel("root", None,
                      (1 :> FolderBtn("f1", "Uno")) @@ (2 :> UpBtn)),
     brightness |-> 80,
     folders |-> ("f1" :> Panel("Folder", None, (2 :> UpBtn)))]

\* a configuration as stored for a device
WithSerial(config, serial) == [config EXCEPT !.serial = serial]

\* the button a client puts at a key
EditedBtn == Btn(None, "Edited", None, FALSE)

\* the panel a client pushes through the push-screen request
ClientPanel == Panel("screen", None, (2 :> UpBtn))

VARIABLES
    kind,               \* per serial: "none" (no core), "blank", "bound"
    should_close,       \* SDCore.should_close
    handles,            \* SDCore.handles: "None" or "Some"
    current_stack,      \* SDCore.current_stack: sequence of live panel references
    device_config,      \* SDCore.device_config
    panels,             \* the live panels allocated so far; a reference is an index
    folder_references,  \* FolderModule.folder_references: folder id -> reference, 0 = absent
    key_tx,             \* the worker still holds the sender of the inbound channel
    key_chan,           \* inbound channel: key events not yet received
    commands,           \* outbound channel: command batches sent to the worker
    pc,                 \* KeyHandler::run_loop position: "none", "check", "recv", "done"
    exit_reason,        \* why run_loop returned: "", "closed", "disconnected"
    dispatched,         \* the key events run_loop has dispatched, in order
    socket_events,      \* global events sent to the sockets, counted per serial
    ops,                \* operations performed so far, per serial and kind
    loaded_configs,     \* Config: the serials whose device config is loaded
    disk,               \* the device config files
    handled,            \* inbound packets the daemon has handled
    last_request,       \* the packet handled last
    last_io,            \* daemon: what its file operation came to, None if it made none
    last_response,      \* the outcome written back for it, None when nothing was written
    exported,           \* daemon: the string of the last Exported response
    responses,          \* response packets written so far
    panicked,           \* handler invocations that ended in a panic
    arrived,            \* client connection: the chunks that have arrived, in order
    eof,                \* client connection: the stream has ended
    token,              \* read_response: the requester waited for
    n_start,            \* read_response: the chunks read before the call
    n_read,             \* read_response: the chunks read so far
    client_pc,          \* the caller: "idle", "reading", "returned", "failed"
    returned,           \* read_response: the packet or the error returned
    via,                \* the call that reads: "read_response", "process_request"
    sent_ids,           \* process_request: the ids drawn on the connection so far
    stack_lock,         \* per device: who holds the lock of the stack, "free" or "loop"
    in_flight,          \* per device: the key event run_loop is dispatching
    config_lock,        \* per device: the threads holding a guard of device_config
    reload_pc,          \* per device: where a reload handler is with its locks
    edit_pc,            \* per editing thread: where it is in its read and write
    snapshot            \* per editing thread: its operation and the folder it read

stackVars == <<current_stack, panels, folder_references>>
loopVars == <<key_tx, key_chan, pc, exit_reason, dispatched>>
lifeVars == <<kind, should_close, handles, socket_events>>
storeVars == <<device_config, loaded_configs, disk>>
daemonVars ==
    <<handled, last_request, last_io, last_response, exported, responses,
      panicked>>
clientVars ==
    <<arrived, eof, token, n_start, n_read, client_pc, returned, via, sent_ids>>

lockVars == <<stack_lock, in_flight, config_lock, reload_pc>>
editVars == <<edit_pc, snapshot>>

vars == <<stackVars, loopVars, lifeVars, storeVars, daemonVars, clientVars,
          commands, ops, lockVars, editVars>>

(***************************************************************************)
(* SDCore construction (core/mod.rs).                                      *)
(***************************************************************************)
\* a blank core whose liveness flag is open
blank_open ==
    [current_stack |-> <<>>, handles |-> "None", should_close |-> FALSE]

\* SDCore::blank: a core that is already dead
blank ==
    [current_stack |-> <<>>, handles |-> "None", should_close |-> TRUE]

\* SDCore::new: a core over an existing connection; the handles are set
\* before new returns
new ==
    [current_stack |-> <<>>, handles |-> "Some", should_close |-> FALSE]

Core(k) == IF k = "bound" THEN new ELSE blank

\* a dispatch loop that never sees the flag set
is_closed_stale(d) == FALSE

\* SDCore::is_closed
is_closed(d) == should_close[d]

(***************************************************************************)
(* The panel stack operations of core::methods.                            *)
(***************************************************************************)
\* get_stack: a snapshot of the stack
get_stack(d) == current_stack[d]

\* pop: remove the top frame unless the stack has exactly one frame
pop_screen(stack) ==
    IF Len(stack) > 1 THEN SubSeq(stack, 1, Len(stack) - 1) ELSE stack

\* push: append, the frame becomes active
push_screen(stack, ref) == Append(stack, ref)

\* reset: replace the entire stack with [root]
reset_stack(stack, ref) == <<ref>>

\* make_panel_unique: the live form of a value-form panel, a new object
\* among the live panels pn; NewRef is the reference to it
make_panel_unique(pn, raw) == Append(pn, raw)
NewRef(pn) == Len(pn) + 1

(***************************************************************************)
(* FolderModule (modules/folders.rs).                                      *)
(***************************************************************************)
\* get_folder: the stored folder, if any
has_folder(d, id) == id \in DOMAIN device_config[d].folders
get_folder(d, id) == device_config[d].folders[id]

\* what an event leaves unchanged
Unchanged(d) ==
    [stack |-> current_stack[d], panels |-> panels, refs |-> folder_references]

\* a Folder Up that pops only from the third frame on
FolderUpOffByOne(d) ==
    [Unchanged(d) EXCEPT !.stack =
        IF Len(get_stack(d)) > 2 THEN pop_screen(current_stack[d])
        ELSE current_stack[d]]

\* ButtonAction on a FolderUpComponent: pop when more than one frame
FolderUp(d) ==
    [Unchanged(d) EXCEPT !.stack =
        IF Len(get_stack(d)) > 1 THEN pop_screen(current_stack[d])
        ELSE current_stack[d]]

\* a folder open that makes a new live panel every time
OpenFolderCopy(d, id, name) ==
    IF has_folder(d, id)
    THEN LET contents == [get_folder(d, id) EXCEPT
                            !.display_name = name, !.data = id]
         IN [stack |-> push_screen(current_stack[d], NewRef(panels)),
             panels |-> make_panel_unique(panels, contents),
             refs |-> [folder_references EXCEPT ![id] = NewRef(panels)]]
    ELSE Unchanged(d)

\* a folder open whose push is not in the stack when the handler returns
OpenFolderLost(d, id, name) == Unchanged(d)

\* ButtonAction on a FolderComponent: push the referenced live panel, or
\* make one from the stored folder, push it and remember it
OpenFolder(d, id, name) ==
    IF folder_references[id] # 0
    THEN [Unchanged(d) EXCEPT
            !.stack = push_screen(current_stack[d], folder_references[id])]
    ELSE IF has_folder(d, id)
    THEN LET contents == [get_folder(d, id) EXCEPT
                            !.display_name = name, !.data = id]
         IN [stack |-> push_screen(current_stack[d], NewRef(panels)),
             panels |-> make_panel_unique(panels, contents),
             refs |-> [folder_references EXCEPT ![id] = NewRef(panels)]]
    ELSE Unchanged(d)

\* ButtonAction on a FolderLinkComponent: as for a folder, the stored
\* display name kept
OpenLink(d, id) ==
    IF folder_references[id] # 0
    THEN [Unchanged(d) EXCEPT
            !.stack = push_screen(current_stack[d], folder_references[id])]
    ELSE IF has_folder(d, id)
    THEN LET contents == [get_folder(d, id) EXCEPT !.data = id]
         IN [stack |-> push_screen(current_stack[d], NewRef(panels)),
             panels |-> make_panel_unique(panels, contents),
             refs |-> [folder_references EXCEPT ![id] = NewRef(panels)]]
    ELSE Unchanged(d)

\* FolderModule::event, SDCoreEvent::ButtonAction
ButtonAction(d, pressed_button) ==
    IF pressed_button.up THEN FolderUp(d)
    ELSE IF pressed_button.folder # None
    THEN OpenFolder(d, pressed_button.folder, pressed_button.name)
    ELSE IF pressed_button.link # None THEN OpenLink(d, pressed_button.link)
    ELSE Unchanged(d)

\* FolderModule::event, ButtonAdded and ButtonUpdated: the button is put
\* into the stored folder the panel was made from, if the device has it
ButtonAdded(d, key, added_button, panel) ==
    IF panel.data # None /\ has_folder(d, panel.data)
    THEN [device_config EXCEPT
            ![d].folders[panel.data].buttons = (key :> added_button) @@ @]
    ELSE device_config

(***************************************************************************)
(* Key dispatch (core::methods button_down / button_up).                   *)
(***************************************************************************)
\* the button at a key of the active frame, if any
HasButton(d, key) ==
    /\ current_stack[d] # <<>>
    /\ key \in DOMAIN panels[current_stack[d][Len(current_stack[d])]].buttons
ButtonAt(d, key) ==
    panels[current_stack[d][Len(current_stack[d])]].buttons[key]

\* button_down: no navigation; button_up: the button's action
button_down(d, key) == Unchanged(d)
button_up(d, key) ==
    IF HasButton(d, key) THEN ButtonAction(d, ButtonAt(d, key))
    ELSE Unchanged(d)

\* what a key event resolves to against the active frame
Resolved(d, key, state) ==
    IF state THEN "down"
    ELSE IF ~HasButton(d, key) THEN "none"
    ELSE IF ButtonAt(d, key).up THEN "up"
    ELSE IF ButtonAt(d, key).folder # None THEN "folder"
    ELSE IF ButtonAt(d, key).link # None THEN "link"
    ELSE "other"

(***************************************************************************)
(* Operation counts.                                                       *)
(***************************************************************************)
OpsOf(d) ==
    ops[d].push + ops[d].pop + ops[d].reset + ops[d].close + ops[d].edit
OpCount == OpsOf("s1") + OpsOf("s2") + OpsOf("s3")
Count(d, k) ==
    ops' = [ops EXCEPT ![d] =
              [push |-> @.push + (IF k = "push" THEN 1 ELSE 0),
               pop |-> @.pop + (IF k = "pop" THEN 1 ELSE 0),
               reset |-> @.reset + (IF k = "reset" THEN 1 ELSE 0),
               close |-> @.close + (IF k = "close" THEN 1 ELSE 0),
               edit |-> @.edit + (IF k = "edit" THEN 1 ELSE 0)]]
Did(d, k) == Count(d, k) /\ UNCHANGED <<lockVars, editVars>>
Sent(d) == Len(dispatched[d]) + Len(key_chan[d])

\* the threads that edit the stored folders of the device: the one that
\* runs the handler of a button event, and the one that sets a component
\* value or pastes a button
Threads == {"event", "value"}
\* no operation under way
NoEdit ==
    [kind |-> "", folder |-> "", key |-> 0, name |-> "", found |-> FALSE,
     contents |-> [display_name |-> "", data |-> None, buttons |-> <<>>]]

\* no key event is being dispatched
NoButton == [folder |-> None, name |-> "", link |-> None, up |-> FALSE]
NoEvent == [key |-> 0, state |-> FALSE, button |-> NoButton, calls |-> <<>>]

(***************************************************************************)
(* The device worker and the key dispatch loop.                            *)
(***************************************************************************)
\* the device worker reports a key transition on the inbound channel
WorkerKey(d) ==
    /\ kind[d] = "bound" /\ key_tx[d]
    /\ Sent(d) < MaxEvents
    /\ \E key \in Keys, state \in BOOLEAN :
          key_chan' = [key_chan EXCEPT ![d] = Append(@, <<key, state>>)]
    /\ UNCHANGED <<key_tx, pc, exit_reason, dispatched>>
    /\ UNCHANGED <<stackVars, lifeVars, storeVars, daemonVars, clientVars,
                   commands, ops, lockVars, editVars>>

\* the device worker ends: the sender of the inbound channel is dropped
WorkerGone(d) ==
    /\ kind[d] = "bound" /\ key_tx[d]
    /\ key_tx' = [key_tx EXCEPT ![d] = FALSE]
    /\ UNCHANGED <<key_chan, pc, exit_reason, dispatched>>
    /\ UNCHANGED <<stackVars, lifeVars, storeVars, daemonVars, clientVars,
                   commands, ops, lockVars, editVars>>

\* run_loop, top of an iteration: break when the core is closed
LoopCheck(d) ==
    /\ pc[d] = "check"
    /\ IF is_closed(d)
       THEN /\ pc' = [pc EXCEPT ![d] = "done"]
            /\ exit_reason' = [exit_reason EXCEPT ![d] = "closed"]
       ELSE /\ pc' = [pc EXCEPT ![d] = "recv"]
            /\ UNCHANGED exit_reason
    /\ UNCHANGED <<key_tx, key_chan, dispatched>>
    /\ UNCHANGED <<stackVars, lifeVars, storeVars, daemonVars, clientVars,
                   commands, ops, lockVars, editVars>>

\* a loop that takes the newest event of the channel
LoopDispatchNewest(d) ==
    /\ pc[d] = "recv"
    /\ key_chan[d] # <<>>
    /\ LET n == Len(key_chan[d])
           key == key_chan[d][n][1]
           state == key_chan[d][n][2]
           r == IF state THEN button_down(d, key) ELSE button_up(d, key)
       IN /\ current_stack' = [current_stack EXCEPT ![d] = r.stack]
          /\ panels' = r.panels
          /\ folder_references' = r.refs
          /\ dispatched' = [dispatched EXCEPT ![d] =
                Append(@, [key |-> key, state |-> state,
                           late |-> should_close[d],
                           depth |-> Len(current_stack[d]),
                           act |-> Resolved(d, key, state)])]
          /\ key_chan' = [key_chan EXCEPT ![d] = SubSeq(@, 1, n - 1)]
    /\ pc' = [pc EXCEPT ![d] = "check"]
    /\ UNCHANGED <<key_tx, exit_reason>>
    /\ UNCHANGED <<lifeVars, storeVars, daemonVars, clientVars, commands, ops, lockVars, editVars>>

\* run_loop, receiver.recv() returns an event: button_down or button_up
LoopDispatch(d) ==
    /\ pc[d] = "recv"
    /\ key_chan[d] # <<>>
    /\ LET key == key_chan[d][1][1]
           state == key_chan[d][1][2]
           r == IF state THEN button_down(d, key) ELSE button_up(d, key)
       IN /\ current_stack' = [current_stack EXCEPT ![d] = r.stack]
          /\ panels' = r.panels
          /\ folder_references' = r.refs
          /\ dispatched' = [dispatched EXCEPT ![d] =
                Append(@, [key |-> key, state |-> state,
                           late |-> should_close[d],
                           depth |-> Len(current_stack[d]),
                           act |-> Resolved(d, key, state)])]
    /\ key_chan' = [key_chan EXCEPT ![d] = Tail(@)]
    /\ pc' = [pc EXCEPT ![d] = "check"]
    /\ UNCHANGED <<key_tx, exit_reason>>
    /\ UNCHANGED <<lifeVars, storeVars, daemonVars, clientVars, commands, ops, lockVars, editVars>>

\* run_loop, receiver.recv() returns Err: the sender is gone and nothing is
\* buffered
LoopDisconnected(d) ==
    /\ pc[d] = "recv"
    /\ key_chan[d] = <<>> /\ ~key_tx[d]
    /\ pc' = [pc EXCEPT ![d] = "done"]
    /\ exit_reason' = [exit_reason EXCEPT ![d] = "disconnected"]
    /\ UNCHANGED <<key_tx, key_chan, dispatched>>
    /\ UNCHANGED <<stackVars, lifeVars, storeVars, daemonVars, clientVars,
                   commands, ops, lockVars, editVars>>

(***************************************************************************)
(* Operations of client handlers and of the device manager on a core.      *)
(***************************************************************************)
\* a close that flips the flag
CloseReopens(d) ==
    /\ kind[d] # "none"
    /\ OpCount < MaxOps
    /\ socket_events' = [socket_events EXCEPT ![d].disconnected = @ + 1]
    /\ should_close' = [should_close EXCEPT ![d] = ~@]
    /\ Did(d, "close")
    /\ UNCHANGED <<kind, handles>>
    /\ UNCHANGED <<stackVars, loopVars, storeVars, daemonVars, clientVars,
                   commands>>

\* SDCore::close: send DeviceDisconnected to the sockets, set should_close
Close(d) ==
    /\ kind[d] # "none"
    /\ OpCount < MaxOps
    /\ socket_events' = [socket_events EXCEPT ![d].disconnected = @ + 1]
    /\ should_close' = [should_close EXCEPT ![d] = TRUE]
    /\ Did(d, "close")
    /\ UNCHANGED <<kind, handles>>
    /\ UNCHANGED <<stackVars, loopVars, storeVars, daemonVars, clientVars,
                   commands>>

\* reset_stack with the live form of the device's layout
ResetStack(d) ==
    /\ kind[d] # "none"
    /\ OpCount < MaxOps
    /\ panels' = make_panel_unique(panels, device_config[d].layout)
    /\ current_stack' = [current_stack EXCEPT ![d] = reset_stack(@, NewRef(panels))]
    /\ Did(d, "reset")
    /\ UNCHANGED folder_references
    /\ UNCHANGED <<loopVars, lifeVars, storeVars, daemonVars, clientVars,
                   commands>>

\* push_screen by a client handler
PushScreen(d) ==
    /\ kind[d] # "none"
    /\ OpCount < MaxOps
    /\ panels' = make_panel_unique(panels, ClientPanel)
    /\ current_stack' = [current_stack EXCEPT ![d] = push_screen(@, NewRef(panels))]
    /\ Did(d, "push")
    /\ UNCHANGED folder_references
    /\ UNCHANGED <<loopVars, lifeVars, storeVars, daemonVars, clientVars,
                   commands>>

\* pop_screen by a client handler
PopScreen(d) ==
    /\ kind[d] # "none"
    /\ OpCount < MaxOps
    /\ current_stack' = [current_stack EXCEPT ![d] = pop_screen(@)]
    /\ Did(d, "pop")
    /\ UNCHANGED <<panels, folder_references>>
    /\ UNCHANGED <<loopVars, lifeVars, storeVars, daemonVars, clientVars,
                   commands>>

\* the active frame of a device
Top(d) == current_stack[d][Len(current_stack[d])]

\* a client puts a button at a key of the active frame: the cell of the
\* live panel changes, and the modules are told
SetButton(d, key) ==
    /\ kind[d] # "none" /\ current_stack[d] # <<>>
    /\ OpCount < MaxOps
    /\ panels' = [panels EXCEPT ![Top(d)].buttons = (key :> EditedBtn) @@ @]
    /\ device_config' = ButtonAdded(d, key, EditedBtn, panels[Top(d)])
    /\ Did(d, "edit")
    /\ UNCHANGED <<current_stack, folder_references, loaded_configs, disk,
                   loopVars, lifeVars, daemonVars, clientVars, commands>>

(***************************************************************************)
(* The configuration store (config::Config) and the socket helpers.        *)
(***************************************************************************)
\* the payload of an inbound packet: absent, not of the request's shape, or
\* a request
Shapes == {"absent", "malformed", "request"}

\* parse_packet_to_data: the payload deserialized as the request type
parse_packet_to_data(shape) == shape = "request"

\* check_packet_for_data: the packet is of the type, whatever its payload
check_packet_for_data(shape) == TRUE

\* what reading or writing a config file comes to
IoResults == {"Ok", "IoError", "ParseError"}

\* Config::get_device_config is Some
has_device_config(configs, serial) == serial \in configs

\* Config::reload_device_config and Config::save_device_config: a
\* distinguished outcome for a serial that is not known
reload_device_config(configs, serial, io) ==
    IF serial \in configs THEN io ELSE "DeviceNotFound"
save_device_config(configs, serial, io) ==
    IF serial \in configs THEN io ELSE "DeviceNotFound"

\* a string or byte array of the export format: base64 says that it is
\* base64 text, gzip that the bytes under that are a gzip stream, json that
\* the text under that is the JSON of config
ConfigString(b, g, j, c) == [base64 |-> b, gzip |-> g, json |-> j, config |-> c]

\* serde_json::to_string and from_str on a DeviceConfig
to_string(config) == ConfigString(FALSE, FALSE, TRUE, config)
from_str(text) == [ok |-> text.json, value |-> text.config]

\* GzEncoder and GzDecoder
compress(text) == [text EXCEPT !.gzip = TRUE]
decompress(bytes) == [ok |-> bytes.gzip, value |-> [bytes EXCEPT !.gzip = FALSE]]

\* base64::encode and base64::decode
base64_encode(bytes) == [bytes EXCEPT !.base64 = TRUE]
base64_decode(str) == [ok |-> str.base64, value |-> [str EXCEPT !.base64 = FALSE]]

\* an export that leaves the compression out
ExportStringPlain(config) == base64_encode(to_string(config))

\* ExportDeviceConfig::process: the string sent with Exported
ExportString(config) == base64_encode(compress(to_string(config)))

\* ImportDeviceConfig::process: the three decoding steps on the string
DecodeConfig(str) ==
    LET bytes == base64_decode(str)
        text == decompress(bytes.value)
        config == from_str(text.value)
    IN [base64 |-> bytes.ok,
        gzip |-> bytes.ok /\ text.ok,
        json |-> bytes.ok /\ text.ok /\ config.ok,
        text |-> text.value,
        config |-> config.value]
NoString == ConfigString(FALSE, FALSE, FALSE, ConfigA)
ImportStrings ==
    {NoString,
     ConfigString(TRUE, FALSE, FALSE, ConfigA),
     ConfigString(TRUE, TRUE, FALSE, ConfigA),
     ConfigString(TRUE, TRUE, TRUE, WithSerial(ConfigB, "s1")),
     ConfigString(TRUE, TRUE, TRUE, WithSerial(ConfigA, "s2"))}

Request(h, shape, serial, str) ==
    [handler |-> h, shape |-> shape, serial_number |-> serial, config |-> str]

\* the fields a payload of that shape carries: only a request has any
SerialsOf(shape) == IF shape = "request" THEN Serials ELSE {""}
StringsOf(shape) ==
    IF shape = "request" THEN ImportStrings \cup {exported} ELSE {NoString}
\* the file operations a packet of that shape can lead to
IoResultsOf(shape) == IF shape = "request" THEN IoResults ELSE {"Ok"}

\* one inbound packet handled, its file operation having come to io, and
\* resp written back (None: nothing written)
Handle(req, io, resp) ==
    /\ handled < MaxRequests
    /\ handled' = handled + 1
    /\ last_request' = req
    /\ last_io' = io
    /\ last_response' = resp
    /\ responses' = responses + (IF resp = None THEN 0 ELSE 1)

\* a reload that resets no stack
ResetNone(S, stacks, pn, configs) == [stacks |-> stacks, panels |-> pn]

\* reset_stack(core, make_panel_unique(layout)) for each device of S in turn
RECURSIVE ResetEach(_, _, _, _)
ResetEach(S, stacks, pn, configs) ==
    IF S = {} THEN [stacks |-> stacks, panels |-> pn]
    ELSE LET d == CHOOSE x \in S : TRUE
         IN ResetEach(S \ {d},
                      [stacks EXCEPT ![d] = reset_stack(@, NewRef(pn))],
                      make_panel_unique(pn, configs[d].layout),
                      configs)

\* the devices a reload resets: added to the core manager, not closed,
\* with a loaded config
Resettable(S) ==
    {d \in S : kind[d] # "none" /\ ~is_closed(d)
               /\ has_device_config(loaded_configs, d)}

(***************************************************************************)
(* The device-config request handlers (daemon_data/config.rs).             *)
(***************************************************************************)
\* ReloadDeviceConfigsResult::process: the response
ReloadDeviceConfigsResponse(checked, result) ==
    IF ~checked THEN None
    ELSE IF result = "Ok" THEN "Reloaded" ELSE "ConfigError"

\* ReloadDeviceConfigsResult::process
ReloadDeviceConfigs ==
    \E shape \in Shapes, io \in IoResults :
        LET checked == check_packet_for_data(shape)
            ok == checked /\ io = "Ok"
            configs == IF ok
                       THEN [d \in Serials |->
                               IF d \in loaded_configs THEN disk[d]
                               ELSE device_config[d]]
                       ELSE device_config
            r == ResetEach(IF ok THEN Resettable(Serials) ELSE {},
                           current_stack, panels, configs)
        IN /\ Handle(Request("reload_device_configs", shape, "", NoString),
                     IF checked THEN io ELSE None,
                     ReloadDeviceConfigsResponse(checked, io))
           /\ device_config' = configs
           /\ current_stack' = r.stacks
           /\ panels' = r.panels
           /\ UNCHANGED <<folder_references, loaded_configs, disk, exported,
                          panicked, loopVars, lifeVars, clientVars, commands,
                          ops, lockVars, editVars>>

\* a reload that reports a failed parse as an error
ReloadDeviceConfigResponseStrict(parsed, result) ==
    IF ~parsed THEN "ConfigError"
    ELSE IF result = "Ok" THEN "Reloaded"
    ELSE IF result = "DeviceNotFound" THEN "DeviceNotFound"
    ELSE "ConfigError"

\* ReloadDeviceConfig::process: the response
ReloadDeviceConfigResponse(parsed, result) ==
    IF ~parsed THEN None
    ELSE IF result = "Ok" THEN "Reloaded"
    ELSE IF result = "DeviceNotFound" THEN "DeviceNotFound"
    ELSE "ConfigError"

\* ReloadDeviceConfig::process
ReloadDeviceConfig ==
    \E shape \in Shapes :
    \E serial \in SerialsOf(shape), io \in IoResultsOf(shape) :
        LET parsed == parse_packet_to_data(shape)
            result == reload_device_config(loaded_configs, serial, io)
            ok == parsed /\ result = "Ok"
            configs == IF ok
                       THEN [device_config EXCEPT ![serial] = disk[serial]]
                       ELSE device_config
            r == ResetEach(IF ok THEN Resettable({serial}) ELSE {},
                           current_stack, panels, configs)
        IN /\ Handle(Request("reload_device_config", shape, serial, NoString),
                     IF parsed THEN result ELSE None,
                     ReloadDeviceConfigResponse(parsed, result))
           /\ device_config' = configs
           /\ current_stack' = r.stacks
           /\ panels' = r.panels
           /\ UNCHANGED <<folder_references, loaded_configs, disk, exported,
                          panicked, loopVars, lifeVars, clientVars, commands,
                          ops, lockVars, editVars>>

\* SaveDeviceConfigsResult::process: the response
SaveDeviceConfigsResponse(checked, result) ==
    IF ~checked THEN None
    ELSE IF result = "Ok" THEN "Saved" ELSE "ConfigError"

\* SaveDeviceConfigsResult::process
SaveDeviceConfigs ==
    \E shape \in Shapes, io \in IoResults :
        LET checked == check_packet_for_data(shape)
        IN /\ Handle(Request("save_device_configs", shape, "", NoString),
                     IF checked THEN io ELSE None,
                     SaveDeviceConfigsResponse(checked, io))
           /\ disk' = IF checked /\ io = "Ok"
                      THEN [d \in Serials |->
                              IF d \in loaded_configs THEN device_config[d]
                              ELSE disk[d]]
                      ELSE disk
           /\ UNCHANGED <<device_config, loaded_configs, exported, panicked,
                          stackVars, loopVars, lifeVars, clientVars, commands,
                          ops, lockVars, editVars>>

\* SaveDeviceConfig::process: the response
SaveDeviceConfigResponse(parsed, result) ==
    IF ~parsed THEN None
    ELSE IF result = "Ok" THEN "Saved"
    ELSE IF result = "DeviceNotFound" THEN "DeviceNotFound"
    ELSE "ConfigError"

\* SaveDeviceConfig::process
SaveDeviceConfig ==
    \E shape \in Shapes :
    \E serial \in SerialsOf(shape), io \in IoResultsOf(shape) :
        LET parsed == parse_packet_to_data(shape)
            result == save_device_config(loaded_configs, serial, io)
        IN /\ Handle(Request("save_device_config", shape, serial, NoString),
                     IF parsed THEN result ELSE None,
                     SaveDeviceConfigResponse(parsed, result))
           /\ disk' = IF parsed /\ result = "Ok"
                      THEN [disk EXCEPT ![serial] = device_config[serial]]
                      ELSE disk
           /\ UNCHANGED <<device_config, loaded_configs, exported, panicked,
                          stackVars, loopVars, lifeVars, clientVars, commands,
                          ops, lockVars, editVars>>

\* GetDeviceConfig::process: the response
GetDeviceConfigResponse(parsed, found) ==
    IF ~parsed THEN None
    ELSE IF found THEN "Config" ELSE "DeviceNotFound"

\* GetDeviceConfig::process
GetDeviceConfig ==
    \E shape \in Shapes : \E serial \in SerialsOf(shape) :
        /\ Handle(Request("get_device_config", shape, serial, NoString),
                  None,
                  GetDeviceConfigResponse(parse_packet_to_data(shape),
                      has_device_config(loaded_configs, serial)))
        /\ UNCHANGED <<storeVars, exported, panicked, stackVars, loopVars,
                       lifeVars, clientVars, commands, ops, lockVars, editVars>>

\* ExportDeviceConfig::process: the response; compressed says whether
\* the encoder finished
ExportDeviceConfigResponse(parsed, found, compressed) ==
    IF ~parsed THEN None
    ELSE IF ~found THEN "DeviceNotFound"
    ELSE IF compressed THEN "Exported" ELSE "FailedToCompress"

\* ExportDeviceConfig::process; an encoder that writes to memory finishes
ExportDeviceConfig ==
    \E shape \in Shapes : \E serial \in SerialsOf(shape) :
        LET resp == ExportDeviceConfigResponse(parse_packet_to_data(shape),
                        has_device_config(loaded_configs, serial), TRUE)
        IN /\ Handle(Request("export_device_config", shape, serial, NoString),
                     None, resp)
           /\ exported' = IF resp = "Exported"
                          THEN ExportString(device_config[serial])
                          ELSE exported
           /\ UNCHANGED <<storeVars, panicked, stackVars, loopVars, lifeVars,
                          clientVars, commands, ops, lockVars, editVars>>

\* an import that has one answer for every failure
ImportDeviceConfigResponseBlob(parsed, str, known, result) ==
    IF ~parsed THEN None
    ELSE IF DecodeConfig(str).json /\ known /\ result = "Ok" THEN "Imported"
    ELSE "InvalidConfig"

\* ImportDeviceConfig::process: the response
ImportDeviceConfigResponse(parsed, str, known, result) ==
    IF ~parsed THEN None
    ELSE IF ~DecodeConfig(str).base64 THEN "InvalidConfig"
    ELSE IF ~DecodeConfig(str).gzip THEN "InvalidConfig"
    ELSE IF ~DecodeConfig(str).json THEN "InvalidConfig"
    ELSE IF ~known THEN "DeviceNotFound"
    ELSE IF result = "Ok" THEN "Imported"
    ELSE IF result = "DeviceNotFound" THEN "DeviceNotFound"
    ELSE "FailedToSave"

\* SDCore::send_commands: the batch goes to the worker; without handles
\* the unwrap panics
send_commands(d, batch) ==
    IF handles[d] = "Some" THEN [commands EXCEPT ![d] = Append(@, batch)]
    ELSE commands
send_commands_panics(d) == handles[d] # "Some"

\* ImportDeviceConfig::process
ImportDeviceConfig ==
    \E shape \in Shapes :
    \E serial \in SerialsOf(shape), str \in StringsOf(shape),
       io \in IoResultsOf(shape) :
        LET parsed == parse_packet_to_data(shape)
            valid == parsed /\ DecodeConfig(str).json
            known == kind[serial] # "none"
            \* config.serial = device.serial
            config == WithSerial(DecodeConfig(str).config, serial)
            \* set_device_config
            stored == valid /\ known
            configs == IF stored THEN [device_config EXCEPT ![serial] = config]
                       ELSE device_config
            loaded == IF stored THEN loaded_configs \cup {serial}
                      ELSE loaded_configs
            result == save_device_config(loaded, serial, io)
            saved == stored /\ result = "Ok"
            \* reset_stack, then set_brightness
            r == ResetEach(IF saved THEN {serial} ELSE {},
                           current_stack, panels, configs)
            panics == saved /\ send_commands_panics(serial)
        IN /\ Handle(Request("import_device_config", shape, serial, str),
                     IF stored THEN result ELSE None,
                     IF panics THEN None
                     ELSE ImportDeviceConfigResponse(parsed, str, known, result))
           /\ device_config' = configs
           /\ loaded_configs' = loaded
           /\ disk' = IF saved THEN [disk EXCEPT ![serial] = config] ELSE disk
           /\ current_stack' = r.stacks
           /\ panels' = r.panels
           /\ commands' = IF saved
                          THEN send_commands(serial, <<"SetBrightness">>)
                          ELSE commands
           /\ panicked' = panicked + (IF panics THEN 1 ELSE 0)
           /\ UNCHANGED <<folder_references, exported, loopVars, lifeVars,
                          clientVars, ops, lockVars, editVars>>

(***************************************************************************)
(* The client side of a connection (streamduck-client/src/util.rs).        *)
(***************************************************************************)
\* a SocketPacket: its type and its optional requester
Packet(ty, has_req, requester) ==
    [ty |-> ty, has_req |-> has_req, requester |-> requester]
NoPacket == Packet("", FALSE, "")

Tokens == {"", "abc", "xyz"}

\* a broadcast, and the responses to the requests sent with an id
Packets ==
    {Packet("event", FALSE, "")}
        \cup {Packet("response", TRUE, t) : t \in Tokens \ {""}}

\* what the stream holds up to one delimiter (term) or up to where it ends:
\* the JSON of a packet, JSON of nothing, bytes that are not UTF-8, or an
\* I/O error
Chunk(k, packet, term) == [kind |-> k, packet |-> packet, term |-> term]
Chunks ==
    {Chunk("packet", p, term) : p \in Packets, term \in BOOLEAN}
        \cup {Chunk("garbage", NoPacket, term) : term \in BOOLEAN}
        \cup {Chunk("badutf8", NoPacket, TRUE), Chunk("io_error", NoPacket, FALSE)}

\* read_until at the end of the stream gives no bytes
EmptyChunk == Chunk("empty", NoPacket, FALSE)

\* a read_socket that takes the end of the stream for a packet of no one
read_socket_past_end(chunk) ==
    IF chunk.kind \in {"packet", "empty"}
    THEN [ok |-> TRUE,
          packet |-> IF chunk.kind = "packet" THEN chunk.packet
                     ELSE Packet("", TRUE, "nobody")]
    ELSE [ok |-> FALSE, packet |-> NoPacket]

\* read_socket on the next chunk: read_until stops at the delimiter or at
\* the end of the stream; the bytes are decoded, the delimiter removed, and
\* the rest parsed
read_socket(chunk) ==
    IF chunk.kind = "packet" THEN [ok |-> TRUE, packet |-> chunk.packet]
    ELSE [ok |-> FALSE, packet |-> NoPacket]

\* a test that takes whatever packet comes
MatchesAny(packet, requester) == TRUE

\* read_response: the test on a packet read
Matches(packet, requester) ==
    (IF packet.has_req THEN packet.requester ELSE "") = requester

\* a test that wants the requester to be there
MatchesSome(packet, requester) ==
    packet.has_req /\ packet.requester = requester

\* bytes up to a delimiter, or the last bytes of the stream, arrive
Arrive ==
    \E chunk \in Chunks :
        /\ ~eof /\ Len(arrived) < MaxStream
        /\ arrived' = Append(arrived, chunk)
        /\ eof' = ~chunk.term
        /\ UNCHANGED <<token, n_start, n_read, client_pc, returned, via,
                       sent_ids, stackVars, loopVars, lifeVars, storeVars,
                       daemonVars, commands, ops, lockVars, editVars>>

\* the peer closes the connection
EndOfStream ==
    /\ ~eof
    /\ eof' = TRUE
    /\ UNCHANGED <<arrived, token, n_start, n_read, client_pc, returned, via,
                   sent_ids, stackVars, loopVars, lifeVars, storeVars,
                   daemonVars, commands, ops, lockVars, editVars>>

\* read_response is called with a token on the connection
StartRead ==
    \E t \in Tokens :
        /\ client_pc \in {"idle", "returned", "failed"}
        /\ token' = t
        /\ n_start' = n_read
        /\ client_pc' = "reading"
        /\ returned' = NoPacket
        /\ via' = "read_response"
        /\ UNCHANGED <<arrived, eof, n_read, sent_ids, stackVars, loopVars,
                       lifeVars, storeVars, daemonVars, commands, ops, lockVars, editVars>>

\* the ids process_request draws: 20 random alphanumeric characters, taken
\* as never drawn twice on a connection
RequestIds == Tokens \ {""}

\* process_request and process_request_without_data: a new id is drawn, the
\* request is sent with it, and read_response waits for the id; a send that
\* fails ends the request
ProcessRequest ==
    \E id \in RequestIds \ sent_ids, sent \in BOOLEAN :
        /\ client_pc \in {"idle", "returned", "failed"}
        /\ sent_ids' = sent_ids \cup {id}
        /\ IF sent
           THEN token' = id /\ n_start' = n_read /\ client_pc' = "reading"
           ELSE UNCHANGED <<token, n_start>> /\ client_pc' = "failed"
        /\ returned' = NoPacket
        /\ via' = "process_request"
        /\ UNCHANGED <<arrived, eof, n_read, stackVars, loopVars, lifeVars,
                       storeVars, daemonVars, commands, ops, lockVars, editVars>>

\* read_response, one iteration of its loop
ReadResponse ==
    /\ client_pc = "reading"
    /\ n_read < Len(arrived) \/ eof
    /\ LET chunk == IF n_read < Len(arrived) THEN arrived[n_read + 1]
                    ELSE EmptyChunk
           r == read_socket(chunk)
       IN /\ n_read' = IF n_read < Len(arrived) THEN n_read + 1 ELSE n_read
          /\ IF ~r.ok
             THEN client_pc' = "failed" /\ returned' = NoPacket
             ELSE IF Matches(r.packet, token)
             THEN client_pc' = "returned" /\ returned' = r.packet
             ELSE UNCHANGED <<client_pc, returned>>
    /\ UNCHANGED <<arrived, eof, token, n_start, via, sent_ids, stackVars,
                   loopVars, lifeVars, storeVars, daemonVars, commands, ops, lockVars, editVars>>

(***************************************************************************)
(* Initial states.                                                         *)
(***************************************************************************)
NoRequest == Request("", "", "", NoString)

\* the cores, built blank or bound (or not at all) as kinds says, with the
\* frames that were loaded since
InitCoresWith(kinds, stacks, pn) ==
    /\ kind = kinds
    /\ should_close = [d \in Serials |-> Core(kinds[d]).should_close]
    /\ handles = [d \in Serials |-> Core(kinds[d]).handles]
    /\ current_stack = stacks
    /\ panels = pn
    /\ folder_references = [id \in FolderIds |-> 0]
    /\ key_tx = [d \in Serials |-> kinds[d] = "bound"]
    /\ key_chan = [d \in Serials |-> <<>>]
    /\ commands = [d \in Serials |-> <<>>]
    /\ pc = [d \in Serials |-> IF kinds[d] = "bound" THEN "check" ELSE "none"]
    /\ exit_reason = [d \in Serials |-> ""]
    /\ dispatched = [d \in Serials |-> <<>>]
    /\ socket_events = [d \in Serials |->
          [connected |-> IF kinds[d] = "bound" THEN 1 ELSE 0,
           disconnected |-> 0]]
    /\ ops = [d \in Serials |->
                [push |-> 0, pop |-> 0, reset |-> 0, close |-> 0, edit |-> 0]]
    /\ stack_lock = [d \in Serials |-> "free"]
    /\ in_flight = [d \in Serials |-> NoEvent]
    /\ config_lock = [d \in Serials |-> {}]
    /\ reload_pc = [d \in Serials |-> "idle"]
    /\ edit_pc = [t \in Threads |-> "idle"]
    /\ snapshot = [t \in Threads |-> NoEdit]

\* the cores as built
AsBuilt(kinds) == [d \in Serials |-> Core(kinds[d]).current_stack]
InitCores(kinds) == InitCoresWith(kinds, AsBuilt(kinds), <<>>)

\* the configuration store: every device with a core has a loaded config;
\* the config files hold on_disk
InitStore(kinds, on_disk) ==
    /\ device_config = [d \in Serials |-> WithSerial(ConfigA, d)]
    /\ loaded_configs = {d \in Serials : kinds[d] # "none"}
    /\ disk = [d \in Serials |-> WithSerial(on_disk, d)]

\* no packet handled yet
InitDaemon ==
    /\ handled = 0
    /\ last_request = NoRequest
    /\ last_io = None
    /\ last_response = None
    /\ exported = NoString
    /\ responses = 0
    /\ panicked = 0

\* a connection on which nothing has arrived: no call yet ("idle"), or
\* read_response called with the token t ("reading")
InitClient(t, at) ==
    /\ arrived = <<>>
    /\ eof = FALSE
    /\ token = t
    /\ n_start = 0
    /\ n_read = 0
    /\ client_pc = at
    /\ returned = NoPacket
    /\ via = "read_response"
    /\ sent_ids = {}

(***************************************************************************)
(* The device core: one device, built blank or bound.                      *)
(***************************************************************************)
\* the serial of the device whose core is built
Device == "s1"
OneCore(k) == [d \in Serials |-> IF d = Device THEN k ELSE "none"]

Init ==
    \E k \in {"blank", "bound"} :
        /\ InitCores(OneCore(k)) /\ InitStore(OneCore(k), ConfigA)
        /\ InitDaemon /\ InitClient("", "idle")

Next ==
    \E d \in Serials :
        \/ WorkerKey(d)
        \/ WorkerGone(d)
        \/ LoopCheck(d)
        \/ LoopDispatch(d)
        \/ LoopDisconnected(d)
        \/ Close(d)
        \/ ResetStack(d)
        \/ PushScreen(d)
        \/ PopScreen(d)

Spec == Init /\ [][Next]_vars

\* the key dispatch loop runs on a thread of its own, which the operating
\* system keeps scheduling
(***************************************************************************)
(* The key dispatch loop of a bound device, its worker, and close().       *)
(***************************************************************************)
InitLoop ==
    /\ InitCores(OneCore("bound")) /\ InitStore(OneCore("bound"), ConfigA)
    /\ InitDaemon /\ InitClient("", "idle")

NextLoop ==
    \/ WorkerKey(Device)
    \/ WorkerGone(Device)
    \/ LoopCheck(Device)
    \/ LoopDispatch(Device)
    \/ LoopDisconnected(Device)
    \/ Close(Device)
    \/ ResetStack(Device)

\* run_loop runs on a thread of its own, which the operating system keeps
\* scheduling: a step of the loop that stays possible is taken
LoopStep(d) == LoopCheck(d) \/ LoopDispatch(d) \/ LoopDisconnected(d)
SpecFair == InitLoop /\ [][NextLoop]_vars /\ WF_vars(LoopStep(Device))

(***************************************************************************)
(* The daemon: a live device s1, a blank device s2, no device s3, and the  *)
(* config handlers serving inbound packets.                                *)
(***************************************************************************)
DaemonDevices ==
    [d \in Serials |->
        IF d = "s1" THEN "bound" ELSE IF d = "s2" THEN "blank" ELSE "none"]

\* the live device shows its root frame and a screen a client pushed
InitDaemonSpec ==
    /\ InitCoresWith(DaemonDevices,
                     [AsBuilt(DaemonDevices) EXCEPT !["s1"] = <<1, 2>>],
                     <<ConfigA.layout, ClientPanel>>)
    /\ InitStore(DaemonDevices, ConfigB)
    /\ InitDaemon /\ InitClient("", "idle")

NextDaemon ==
    \/ ReloadDeviceConfigs
    \/ ReloadDeviceConfig
    \/ SaveDeviceConfigs
    \/ SaveDeviceConfig
    \/ GetDeviceConfig
    \/ ExportDeviceConfig
    \/ ImportDeviceConfig
    \/ \E d \in Serials : Close(d)

SpecDaemon == InitDaemonSpec /\ [][NextDaemon]_vars

(***************************************************************************)
(* A client waiting for responses on one connection.                       *)
(***************************************************************************)
NoDevices == [d \in Serials |-> "none"]

InitClientSpec ==
    /\ InitCores(NoDevices) /\ InitStore(NoDevices, ConfigA) /\ InitDaemon
    /\ InitClient("", "idle")

NextClient ==
    \/ Arrive
    \/ EndOfStream
    \/ StartRead
    \/ ProcessRequest
    \/ ReadResponse

SpecClient == InitClientSpec /\ [][NextClient]_vars

\* one call of read_response on the connection
NextRead ==
    \/ Arrive
    \/ EndOfStream
    \/ ReadResponse

\* the caller of read_response runs on a thread of its own, which the
\* operating system keeps scheduling
InitRead ==
    /\ InitCores(NoDevices) /\ InitStore(NoDevices, ConfigA) /\ InitDaemon
    /\ \E t \in Tokens : InitClient(t, "reading")

SpecClientFair ==
    InitRead /\ [][NextRead]_vars /\ WF_vars(ReadResponse)

(***************************************************************************)
(* Two live devices served by the one FolderModule, their root frames      *)
(* loaded, and clients that edit buttons.                                  *)
(***************************************************************************)
TwoDevices ==
    [d \in Serials |-> IF d \in {"s1", "s2"} THEN "bound" ELSE "none"]

\* the configurations of the two devices: both have a folder f1
TwoConfigs ==
    [d \in Serials |-> WithSerial(IF d = "s2" THEN ConfigB ELSE ConfigA, d)]

InitTwo ==
    /\ LET r == ResetEach({"s1", "s2"}, AsBuilt(TwoDevices), <<>>, TwoConfigs)
       IN InitCoresWith(TwoDevices, r.stacks, r.panels)
    /\ device_config = TwoConfigs
    /\ loaded_configs = {"s1", "s2"}
    /\ disk = TwoConfigs
    /\ InitDaemon /\ InitClient("", "idle")

\* nothing waits on an inbound channel
Quiet == \A d \in Serials : key_chan[d] = <<>>

\* the key events sent on all the devices
SentAll == Sent("s1") + Sent("s2") + Sent("s3")

\* keys are released one at a time, MaxEvents of them on all the devices
ReleaseKey(d) ==
    /\ Quiet /\ SentAll < MaxEvents
    /\ WorkerKey(d) /\ ~key_chan'[d][1][2]

\* a client edits a button between two key releases
EditButton(d) == \E key \in Keys : Quiet /\ SetButton(d, key)

NextTwo ==
    \E d \in Serials :
        \/ ReleaseKey(d)
        \/ LoopCheck(d)
        \/ LoopDispatch(d)
        \/ EditButton(d)

SpecTwo == InitTwo /\ [][NextTwo]_vars

(***************************************************************************)
(* Properties of the device core.                                          *)
(***************************************************************************)
\* C1: in every reachable state the panel stack of every core, from its
\* construction on, holds at least one frame
C1_StackNeverEmpty ==
    \A d \in Serials : kind[d] # "none" => Len(current_stack[d]) >= 1

\* a step in which run_loop dispatches the release of a Folder Up button
FolderUpStep(d) ==
    /\ Len(dispatched'[d]) = Len(dispatched[d]) + 1
    /\ dispatched'[d][Len(dispatched'[d])].act = "up"
\* a step in which a client handler pops
PopStep(d) == ops'[d].pop = ops[d].pop + 1

\* C2: a pop, and a Folder Up press, on a stack of exactly one frame
\* changes nothing; on a stack of n > 1 frames it removes exactly the top
\* frame
C2_PopKeepsRoot ==
    [][\A d \in Serials : (FolderUpStep(d) \/ PopStep(d)) =>
          /\ Len(current_stack[d]) = 1 => UNCHANGED stackVars
          /\ Len(current_stack[d]) > 1 =>
                /\ current_stack'[d] =
                      SubSeq(current_stack[d], 1, Len(current_stack[d]) - 1)
                /\ UNCHANGED <<panels, folder_references>>]_vars

\* two Folder Up presses were dispatched, the first on two frames, the
\* second on the single frame left
C2_Witness ==
    \E d \in Serials :
        /\ Len(dispatched[d]) = 2
        /\ dispatched[d][1].act = "up" /\ dispatched[d][1].depth = 2
        /\ dispatched[d][2].act = "up" /\ dispatched[d][2].depth = 1
        /\ Len(current_stack[d]) = 1

\* C3: no key event that run_loop received after close() had set the flag
\* was dispatched to button_down or button_up
C3_NoDispatchAfterClose ==
    \A d \in Serials :
        \A i \in 1 .. Len(dispatched[d]) : ~dispatched[d][i].late

\* C8: once close() has returned on a bound core, the flag is set and a
\* Shutdown command is on the outbound channel
C8_CloseSendsShutdown ==
    \A d \in Serials :
        (kind[d] = "bound" /\ ops[d].close > 0) =>
            /\ should_close[d]
            /\ \E i \in 1 .. Len(commands[d]) :
                  \E j \in 1 .. Len(commands[d][i]) :
                      commands[d][i][j] = "Shutdown"

\* C9: when run_loop has ended because the worker's sender is gone, the
\* core is marked closed and a DeviceDisconnected event has been emitted
C9_WorkerGoneClosesCore ==
    \A d \in Serials :
        (pc[d] = "done" /\ exit_reason[d] = "disconnected") =>
            should_close[d] /\ socket_events[d].disconnected >= 1

\* C10: run_loop returns only when it saw the flag closed at the top of an
\* iteration or when the channel reported the sender gone; and once the
\* core is closed and an event is buffered or the sender is dropped, the
\* loop exits
C10_LoopTermination ==
    /\ [](\A d \in Serials : pc[d] = "done" =>
            \/ exit_reason[d] = "closed" /\ should_close[d]
            \/ /\ exit_reason[d] = "disconnected"
               /\ ~key_tx[d] /\ key_chan[d] = <<>>)
    /\ (/\ pc[Device] \in {"check", "recv"}
        /\ should_close[Device]
        /\ (key_chan[Device] # <<>> \/ ~key_tx[Device]))
          ~> (pc[Device] = "done")

\* the loop was blocked in recv when the core was closed, one further
\* event arrived and was dispatched, and the loop then exited on the flag
C10_Witness ==
    \E d \in Serials :
        /\ pc[d] = "done" /\ exit_reason[d] = "closed"
        /\ dispatched[d] # <<>>
        /\ dispatched[d][Len(dispatched[d])].late

(***************************************************************************)
(* Properties of the config handlers.                                      *)
(***************************************************************************)
\* the handlers whose request names a device
DeviceHandlers ==
    {"reload_device_config", "save_device_config", "get_device_config",
     "export_device_config", "import_device_config"}

\* a serial known neither to the configuration store nor to the registry
UnknownSerial(serial) == serial \notin loaded_configs /\ kind[serial] = "none"

\* C6: every handler that names a device answers DeviceNotFound when the
\* serial of the request is known neither to the store nor to the registry
C6_UnknownSerialNotFound ==
    (/\ handled > 0
     /\ last_request.handler \in DeviceHandlers
     /\ last_request.shape = "request"
     /\ UnknownSerial(last_request.serial_number))
        => last_response = "DeviceNotFound"

\* a handler has served a packet
HandlerStep == handled' = handled + 1

\* nothing written back, store and panel stacks as before
Ignored ==
    /\ last_response' = None
    /\ responses' = responses
    /\ UNCHANGED <<storeVars, stackVars>>

\* C7 as stated: a packet whose payload is absent or not of the request's
\* shape is ignored by every handler: no response is written, and neither
\* the store nor any panel stack changes
C7_BadPayloadIgnoredByAll ==
    [][(HandlerStep /\ last_request'.shape # "request") => Ignored]_vars

\* C7: a packet whose payload is absent or not of the request's shape is
\* ignored by every handler whose request carries a payload: no response is
\* written, and neither the store nor any panel stack changes
C7_BadPayloadIgnored ==
    [][(/\ HandlerStep
        /\ last_request'.shape # "request"
        /\ last_request'.handler \in DeviceHandlers) => Ignored]_vars

\* after an answered request, an import whose payload is absent was served
\* and nothing was written back
C7_Witness ==
    /\ handled = 2
    /\ responses = 1
    /\ last_request.handler = "import_device_config"
    /\ last_request.shape = "absent"
    /\ last_response = None

(***************************************************************************)
(* Properties of the client's reads.                                       *)
(***************************************************************************)
\* the chunk is a packet whose requester field is the token
Carries(chunk, requester) ==
    chunk.kind = "packet" /\ MatchesSome(chunk.packet, requester)

\* C4: read_response returns the first packet in stream order whose requester
\* field equals the token: every packet before it is consumed and not
\* returned, and the packets after it stay unread
C4_FirstMatchReturned ==
    client_pc = "returned" =>
        /\ n_read > n_start
        /\ returned = arrived[n_read].packet
        /\ Carries(arrived[n_read], token)
        /\ \A i \in (n_start + 1) .. (n_read - 1) : ~Carries(arrived[i], token)

\* C5: a packet without a requester field is never returned by read_response,
\* whatever the token
C5_NoBroadcastReturned ==
    client_pc = "returned" => returned.has_req

\* what the next read_socket on the connection finds
NextChunk ==
    IF n_read < Len(arrived) THEN arrived[n_read + 1] ELSE EmptyChunk

\* read_response reads once more
ReadStep ==
    /\ client_pc = "reading"
    /\ n_read' = n_read + 1 \/ client_pc' # client_pc

\* C11: when the stream gives an I/O error, bytes that are not UTF-8 or
\* malformed JSON, or ends before a matching packet, the read returns an
\* error and nothing else: no panic, the stream as it was but for the chunk
\* read; and a read on a stream that has ended does not go on for ever
C11_ReadErrors ==
    /\ [][(ReadStep /\ NextChunk.kind # "packet") =>
            /\ client_pc' = "failed"
            /\ returned' = NoPacket
            /\ panicked' = panicked
            /\ arrived' = arrived /\ eof' = eof
            /\ n_read' <= n_read + 1]_vars
    /\ (client_pc = "reading" /\ eof) ~> (client_pc # "reading")

\* the stream ended before a matching packet: the last packet was read and
\* discarded, and the read failed
C11_Witness ==
    /\ client_pc = "failed"
    /\ eof /\ n_read = Len(arrived)
    /\ n_read > n_start
    /\ arrived[n_read].kind = "packet" /\ arrived[n_read].term

\* C12: read_socket returns a packet only after it has read the delimiter
\* that ends it; a stream that ends before the delimiter gives an error
C12_PacketOnlyAfterDelimiter ==
    client_pc = "returned" => arrived[n_read].term

\* C18: the packet process_request gets back carries the id that was drawn
\* for that request, an id no earlier request on the connection was sent
\* with: a late response to an earlier request is discarded
C18_ResponseCarriesOwnId ==
    /\ [][(sent_ids' # sent_ids /\ client_pc' = "reading") =>
            /\ token' \notin sent_ids
            /\ sent_ids' = sent_ids \cup {token'}]_vars
    /\ [](client_pc = "returned" /\ via = "process_request" =>
            /\ returned.has_req /\ returned.requester = token
            /\ \A i \in (n_start + 1) .. (n_read - 1) :
                  ~Carries(arrived[i], token))

\* the response to the second request came in after a late response to the
\* first one, which was read and discarded
C18_Witness ==
    /\ client_pc = "returned" /\ via = "process_request"
    /\ \E i \in (n_start + 1) .. (n_read - 1) :
          /\ arrived[i].kind = "packet" /\ arrived[i].packet.has_req
          /\ arrived[i].packet.requester \in sent_ids \ {token}

(***************************************************************************)
(* Properties of devices and of shared live panels.                        *)
(***************************************************************************)
\* what a device shows: its stack and the live panels of its frames
View(e) ==
    [stack |-> current_stack[e],
     frames |-> [i \in DOMAIN current_stack[e] |-> panels[current_stack[e][i]]],
     config |-> device_config[e]]

\* a key event of the device is dispatched, or a client edits a button on it
ActsOn(d) == dispatched'[d] # dispatched[d] \/ ops'[d] # ops[d]

\* C13: a key press, folder open or button edit on one device changes neither
\* the stack nor the live panels nor the buttons of another device
C13_DevicesIndependent ==
    [][\A d \in Serials : \A e \in Serials \ {d} :
          ActsOn(d) => View(e)' = View(e)]_vars

\* run_loop dispatches one more key event of the device
DispatchStep(d) == Len(dispatched'[d]) = Len(dispatched[d]) + 1

\* the event just dispatched and the folder its button opens
LastDispatched(d) == dispatched'[d][Len(dispatched'[d])]
FolderOf(button) ==
    IF button.folder # None THEN button.folder ELSE button.link

\* C16: opening a folder, or a link to it, that was opened before pushes the
\* live panel made the first time, no new one; and a button edited through
\* a frame is the same through every frame that holds that panel
C16_SameLivePanel ==
    [][\A d \in Serials :
          /\ (/\ DispatchStep(d)
              /\ LastDispatched(d).act \in {"folder", "link"}
              /\ folder_references[FolderOf(ButtonAt(d, LastDispatched(d).key))] # 0)
                => /\ current_stack'[d] =
                        Append(current_stack[d],
                               folder_references[
                                   FolderOf(ButtonAt(d, LastDispatched(d).key))])
                   /\ UNCHANGED <<panels, folder_references>>
          /\ ops'[d].edit # ops[d].edit =>
                \A e \in Serials : \A i \in DOMAIN current_stack[e] :
                    current_stack[e][i] = Top(d) =>
                        /\ current_stack'[e][i] = Top(d)
                        /\ \E key \in DOMAIN panels'[current_stack'[e][i]].buttons :
                              panels'[current_stack'[e][i]].buttons[key] = EditedBtn]_vars

\* a device holds the panel of a folder in two frames, opened by the folder
\* button and then by a link, and a button of it was edited
C16_Witness ==
    \E d \in Serials : \E i, j \in DOMAIN current_stack[d] :
        /\ i < j /\ current_stack[d][i] = current_stack[d][j]
        /\ ops[d].edit > 0
        /\ \E key \in DOMAIN panels[current_stack[d][i]].buttons :
              panels[current_stack[d][i]].buttons[key] = EditedBtn

(***************************************************************************)
(* Properties of the two kinds of core.                                    *)
(***************************************************************************)
\* C17: a core built by SDCore::blank has no worker handle and is closed in
\* every state; a core built by SDCore::new holds a worker handle, and is
\* not closed until close() is called
C17_BlankAndBound ==
    \A d \in Serials :
        /\ kind[d] = "blank" => handles[d] = "None" /\ is_closed(d)
        /\ kind[d] = "bound" =>
              /\ handles[d] = "Some"
              /\ ops[d].close = 0 => ~is_closed(d)

\* a blank core on which a client reset the stack and pushed a screen
C17_Witness ==
    \E d \in Serials :
        /\ kind[d] = "blank"
        /\ ops[d].reset > 0 /\ ops[d].push > 0
        /\ handles[d] = "None" /\ is_closed(d)

(***************************************************************************)
(* Properties of export, import and reload.                                *)
(***************************************************************************)
\* the device named by the request just handled
Named == last_request'.serial_number

\* an import request was handled and did not panic
ImportStep ==
    /\ HandlerStep /\ panicked' = panicked
    /\ last_request'.handler = "import_device_config"
    /\ last_request'.shape = "request"

Fresh(d) ==
    /\ Len(current_stack'[d]) = 1
    /\ current_stack'[d][1] > Len(panels)
    /\ panels'[current_stack'[d][1]] = device_config'[d].layout

\* C15: after a reload that succeeds for a device that is not closed, and
\* after an import answered Imported, the stack of the device is exactly one
\* frame, the live form of the layout just loaded
C15_StackResetOnLoad ==
    [][HandlerStep =>
        /\ (/\ last_request'.handler = "reload_device_configs"
            /\ last_response' = "Reloaded") =>
              \A d \in Serials :
                  (kind[d] # "none" /\ ~is_closed(d)) => Fresh(d)
        /\ (/\ last_request'.handler = "reload_device_config"
            /\ last_response' = "Reloaded"
            /\ kind[Named] # "none" /\ ~is_closed(Named)) => Fresh(Named)
        /\ (/\ last_request'.handler = "import_device_config"
            /\ last_response' = "Imported") => Fresh(Named)]_vars

\* the device that showed two frames was reloaded and shows one, the layout
\* read from its file
C15_Witness ==
    /\ handled = 1
    /\ last_request.handler = "reload_device_config"
    /\ last_request.serial_number = "s1"
    /\ last_response = "Reloaded"
    /\ Len(panels) = 3 /\ current_stack["s1"] = <<3>>
    /\ panels[3] = ConfigB.layout

after_resolve_held(d) == "loop"
\* the lock after button_up has read the active frame: released before the
\* modules are called
after_resolve(d) == "free"

\* FolderModule::event, ButtonAction: the calls the handler makes for the
\* pressed button that take a lock of the core, in order; get_folder takes
\* a read guard of device_config, the others the lock of the stack
HandlerCalls(d, pressed_button) ==
    IF pressed_button.up THEN <<"get_stack", "pop_screen">>
    ELSE IF pressed_button.folder # None \/ pressed_button.link # None
    THEN LET id == IF pressed_button.folder # None
                   THEN pressed_button.folder ELSE pressed_button.link
         IN IF folder_references[id] # 0 THEN <<"push_screen">>
            ELSE IF has_folder(d, id) THEN <<"get_folder", "push_screen">>
            ELSE <<"get_folder">>
    ELSE <<>>

\* run_loop, receiver.recv() returns an event; button_down or button_up
\* takes the lock of the stack to read the active frame
DispatchLock(d) ==
    /\ pc[d] = "recv"
    /\ key_chan[d] # <<>>
    /\ stack_lock[d] = "free"
    /\ stack_lock' = [stack_lock EXCEPT ![d] = "loop"]
    /\ in_flight' = [in_flight EXCEPT ![d] =
            [key |-> key_chan[d][1][1], state |-> key_chan[d][1][2],
             button |-> NoButton, calls |-> <<>>]]
    /\ key_chan' = [key_chan EXCEPT ![d] = Tail(@)]
    /\ pc' = [pc EXCEPT ![d] = "resolve"]
    /\ UNCHANGED <<key_tx, exit_reason, dispatched, config_lock, reload_pc>>
    /\ UNCHANGED <<stackVars, lifeVars, storeVars, daemonVars, clientVars,
                   commands, ops, editVars>>

\* button_down or button_up has the button of the active frame and leaves
\* the lock; the ButtonAction event goes to the modules next
DispatchResolve(d) ==
    /\ pc[d] = "resolve"
    /\ LET key == in_flight[d].key
           acts == ~in_flight[d].state /\ HasButton(d, key)
       IN in_flight' = [in_flight EXCEPT ![d] =
            [key |-> key, state |-> @.state,
             button |-> IF acts THEN ButtonAt(d, key) ELSE NoButton,
             calls |-> IF acts THEN HandlerCalls(d, ButtonAt(d, key))
                       ELSE <<>>]]
    /\ dispatched' = [dispatched EXCEPT ![d] =
            Append(@, [key |-> in_flight[d].key, state |-> in_flight[d].state,
                       late |-> should_close[d],
                       depth |-> Len(current_stack[d]),
                       act |-> Resolved(d, in_flight[d].key,
                                        in_flight[d].state)])]
    /\ stack_lock' = [stack_lock EXCEPT ![d] = after_resolve(d)]
    /\ pc' = [pc EXCEPT ![d] = "event"]
    /\ UNCHANGED <<key_tx, key_chan, exit_reason, config_lock, reload_pc>>
    /\ UNCHANGED <<stackVars, lifeVars, storeVars, daemonVars, clientVars,
                   commands, ops, editVars>>

\* the handler calls get_stack, pop_screen or push_screen, which takes the
\* lock of the stack, or get_folder, which takes a read guard of
\* device_config
HandlerEnter(d) ==
    /\ pc[d] = "event"
    /\ in_flight[d].calls # <<>>
    /\ IF Head(in_flight[d].calls) = "get_folder"
       THEN /\ config_lock' = [config_lock EXCEPT ![d] = @ \cup {"loop"}]
            /\ UNCHANGED stack_lock
       ELSE /\ stack_lock[d] = "free"
            /\ stack_lock' = [stack_lock EXCEPT ![d] = "loop"]
            /\ UNCHANGED config_lock
    /\ pc' = [pc EXCEPT ![d] = "call"]
    /\ UNCHANGED <<key_tx, key_chan, exit_reason, dispatched, in_flight,
                   reload_pc>>
    /\ UNCHANGED <<stackVars, lifeVars, storeVars, daemonVars, clientVars,
                   commands, ops, editVars>>

\* the call does its work and releases its lock; after get_stack the
\* handler goes on to pop_screen only if the stack is deeper than the root
HandlerExit(d) ==
    /\ pc[d] = "call"
    /\ LET call == Head(in_flight[d].calls)
           r == IF call \in {"get_stack", "get_folder"} THEN Unchanged(d)
                ELSE ButtonAction(d, in_flight[d].button)
       IN /\ current_stack' = [current_stack EXCEPT ![d] = r.stack]
          /\ panels' = r.panels
          /\ folder_references' = r.refs
          /\ in_flight' = [in_flight EXCEPT ![d].calls =
                IF call = "get_stack" /\ ~(Len(get_stack(d)) > 1)
                THEN <<>> ELSE Tail(@)]
    /\ IF Head(in_flight[d].calls) = "get_folder"
       THEN /\ config_lock' = [config_lock EXCEPT ![d] = @ \ {"loop"}]
            /\ UNCHANGED stack_lock
       ELSE /\ stack_lock' = [stack_lock EXCEPT ![d] = "free"]
            /\ UNCHANGED config_lock
    /\ pc' = [pc EXCEPT ![d] = "event"]
    /\ UNCHANGED <<key_tx, key_chan, exit_reason, dispatched, reload_pc>>
    /\ UNCHANGED <<lifeVars, storeVars, daemonVars, clientVars, commands, ops,
                   editVars>>

\* the handlers have returned: button_down or button_up returns to run_loop
DispatchDone(d) ==
    /\ pc[d] = "event"
    /\ in_flight[d].calls = <<>>
    /\ in_flight' = [in_flight EXCEPT ![d] = NoEvent]
    /\ pc' = [pc EXCEPT ![d] = "check"]
    /\ UNCHANGED <<key_tx, key_chan, exit_reason, dispatched, stack_lock,
                   config_lock, reload_pc>>
    /\ UNCHANGED <<stackVars, lifeVars, storeVars, daemonVars, clientVars,
                   commands, ops, editVars>>

\* one device with its root frame loaded, its worker running
InitLock ==
    /\ InitCoresWith(OneCore("bound"),
                     [d \in Serials |-> IF d = Device THEN <<1>> ELSE <<>>],
                     <<ConfigA.layout>>)
    /\ InitStore(OneCore("bound"), ConfigA)
    /\ InitDaemon
    /\ InitClient("", "idle")

LockStep(d) ==
    \/ LoopCheck(d)
    \/ DispatchLock(d)
    \/ DispatchResolve(d)
    \/ HandlerEnter(d)
    \/ HandlerExit(d)
    \/ DispatchDone(d)

NextLock ==
    \/ WorkerKey(Device)
    \/ LockStep(Device)

SpecLock == InitLock /\ [][NextLock]_vars /\ WF_vars(LockStep(Device))

\* C20: the lock of the stack is not held while a module's handler runs, so
\* a handler that calls get_stack, pop_screen or push_screen gets the lock,
\* and every dispatch that has begun returns to the loop
HandlerRuns(d) == pc[d] = "event"
C24_OneResponsePerRequest ==
    [][(HandlerStep /\ last_request'.shape = "request") =>
        /\ last_response' # None
        /\ responses' = responses + 1]_vars

\* C25: an import answered with anything but Imported leaves the stored
\* configuration and the panel stack of the device as they were
C25_FailedImportChangesNothing ==
    [][(/\ HandlerStep
        /\ last_request'.handler = "import_device_config"
        /\ last_response' \notin {None, "Imported"}) =>
            /\ device_config'[Named] = device_config[Named]
            /\ current_stack'[Named] = current_stack[Named]]_vars

\* C26: a config handler neither resets the panel stack of a device whose
\* liveness flag is closed nor sends it commands
C26_ClosedDevicesLeftAlone ==
    [][HandlerStep =>
        \A d \in Serials :
            is_closed(d) => /\ current_stack'[d] = current_stack[d]
                            /\ commands'[d] = commands[d]]_vars

(***************************************************************************)
(* The liveness flag.                                                      *)
(***************************************************************************)
\* C30: once is_closed() is true of a core it stays true: no operation sets
\* the flag back, and a second close() leaves it set
C30_ClosedStaysClosed ==
    [][\A d \in Serials : is_closed(d) => is_closed(d)']_vars
\* a live core was closed twice and is closed
C30_Witness ==
    /\ kind[Device] = "bound"
    /\ ops[Device].close = 2
    /\ is_closed(Device)

(***************************************************************************)
(* Order of dispatch.                                                      *)
(***************************************************************************)
\* the loop of d has dispatched one more event
Dispatches(d) == dispatched'[d] # dispatched[d]

\* the event dispatched is the oldest of the channel: it leaves the channel,
\* button_down ran for a press and button_up for a release
TakesOldest(d) ==
    /\ key_chan[d] # <<>>
    /\ key_chan'[d] = Tail(key_chan[d])
    /\ Len(dispatched'[d]) = Len(dispatched[d]) + 1
    /\ SubSeq(dispatched'[d], 1, Len(dispatched[d])) = dispatched[d]
    /\ LET e == dispatched'[d][Len(dispatched'[d])]
       IN /\ <<e.key, e.state>> = key_chan[d][1]
          /\ (e.act = "down") <=> e.state

\* C23: run_loop dispatches the events of the inbound channel one at a time
\* in the order they were put there, button_down for (key, true) and
\* button_up for (key, false); an event leaves the channel only by being
\* dispatched, and the channel otherwise only grows at its end
C23_DispatchInOrder ==
    [][\A d \in Serials :
        /\ Dispatches(d) => TakesOldest(d)
        /\ (key_chan'[d] # key_chan[d] /\ ~Dispatches(d)) =>
              /\ Len(key_chan'[d]) = Len(key_chan[d]) + 1
              /\ SubSeq(key_chan'[d], 1, Len(key_chan[d])) = key_chan[d]]_vars
\* a press and the release of the same key were dispatched in that order
\* on a live device, and nothing is left in the channel
C23_Witness ==
    /\ ~is_closed(Device)
    /\ Len(dispatched[Device]) = 2
    /\ dispatched[Device][1].state /\ ~dispatched[Device][2].state
    /\ dispatched[Device][1].key = dispatched[Device][2].key
    /\ dispatched[Device][1].act = "down"
    /\ dispatched[Device][2].act = "folder"
    /\ key_chan[Device] = <<>>

(***************************************************************************)
(* Each key event against the stack the one before it left.  The frames    *)
(* are named by the folder they show, "root" for the layout; the stack     *)
(* after n events is worked out from the stored configuration alone.       *)
(***************************************************************************)
PanelOfFrame(d, frame) ==
    IF frame = "root" THEN device_config[d].layout
    ELSE device_config[d].folders[frame]

\* the button a key event acts on in the frame, if any
ActsOnButton(d, frame, e) ==
    ~e.state /\ e.key \in DOMAIN PanelOfFrame(d, frame).buttons

\* what the key event resolves to against the frame
ActOn(d, frame, e) ==
    IF e.state THEN "down"
    ELSE IF ~ActsOnButton(d, frame, e) THEN "none"
    ELSE LET b == PanelOfFrame(d, frame).buttons[e.key]
         IN IF b.up THEN "up"
            ELSE IF b.folder # None THEN "folder"
            ELSE IF b.link # None THEN "link"
            ELSE "other"

\* the frames after the key event
StepFrames(d, frames, e) ==
    LET frame == frames[Len(frames)]
        act == ActOn(d, frame, e)
        b == PanelOfFrame(d, frame).buttons[e.key]
        to == IF act = "folder" THEN b.folder ELSE b.link
    IN IF act = "up" /\ Len(frames) > 1
       THEN SubSeq(frames, 1, Len(frames) - 1)
       ELSE IF act \in {"folder", "link"} /\ has_folder(d, to)
       THEN Append(frames, to)
       ELSE frames

RECURSIVE FramesAfter(_, _)
FramesAfter(d, n) ==
    IF n = 0 THEN <<"root">>
    ELSE StepFrames(d, FramesAfter(d, n - 1), dispatched[d][n])

\* C22: when the dispatch of a key event pushed or popped a frame, the next
\* key event dispatched on the device is resolved against the stack the
\* first left: its depth and its active frame
C22_NextEventSeesStack ==
    \A d \in Serials : \A i \in 2 .. Len(dispatched[d]) :
        LET before == FramesAfter(d, i - 2)
            after == FramesAfter(d, i - 1)
        IN before # after =>
            /\ dispatched[d][i].depth = Len(after)
            /\ dispatched[d][i].act =
                  ActOn(d, after[Len(after)], dispatched[d][i])
\* a link opened folder f2, and the next release was resolved against f2,
\* whose key 0 is a Folder button
C22_Witness ==
    /\ Len(dispatched[Device]) = 2
    /\ dispatched[Device][1].act = "link"
    /\ dispatched[Device][1].depth = 1
    /\ dispatched[Device][2].key = 0
    /\ dispatched[Device][2].act = "folder"
    /\ dispatched[Device][2].depth = 2
    /\ FramesAfter(Device, 1) = <<"root", "f2">>

(***************************************************************************)
(* The order of the two locks of a device.  A reload handler takes a read  *)
(* guard of the device's configuration and keeps it while reset_stack      *)
(* takes the lock of the stack; the folder handler reads the folder under  *)
(* a guard it gives back before push_screen takes the lock of the stack.   *)
(* No thread of the model writes the configuration, so a read guard is     *)
(* never waited for.                                                       *)
(***************************************************************************)
\* a reload handler that is inside reset_stack when it reads the config
reload_order_stack_first(d) == <<"stack", "config">>
\* ReloadDeviceConfig::process: dvc_cfg.read(), then reset_stack
reload_order(d) == <<"config", "stack">>

\* thread t takes the lock of device d
Takes(lock, d, t) ==
    IF lock = "config"
    THEN /\ config_lock' = [config_lock EXCEPT ![d] = @ \cup {t}]
         /\ UNCHANGED stack_lock
    ELSE /\ stack_lock[d] = "free"
         /\ stack_lock' = [stack_lock EXCEPT ![d] = t]
         /\ UNCHANGED config_lock

\* the reload handler, the config reloaded and the device not closed, takes
\* its first lock
ReloadRead(d) ==
    /\ kind[d] # "none" /\ ~is_closed(d)
    /\ reload_pc[d] = "idle"
    /\ OpCount < MaxOps
    /\ Takes(reload_order(d)[1], d, "client")
    /\ reload_pc' = [reload_pc EXCEPT ![d] = "first"]
    /\ Count(d, "reset")
    /\ UNCHANGED <<stackVars, loopVars, lifeVars, storeVars, daemonVars,
                   clientVars, commands, in_flight, editVars>>

\* and its second
ReloadLock(d) ==
    /\ reload_pc[d] = "first"
    /\ Takes(reload_order(d)[2], d, "client")
    /\ reload_pc' = [reload_pc EXCEPT ![d] = "second"]
    /\ UNCHANGED <<stackVars, loopVars, lifeVars, storeVars, daemonVars,
                   clientVars, commands, ops, in_flight, editVars>>

\* reset_stack puts the live form of the layout in the stack; both locks
\* are given back
ReloadReset(d) ==
    /\ reload_pc[d] = "second"
    /\ panels' = make_panel_unique(panels, device_config[d].layout)
    /\ current_stack' = [current_stack EXCEPT ![d] = reset_stack(@, NewRef(panels))]
    /\ stack_lock' = [stack_lock EXCEPT ![d] = "free"]
    /\ config_lock' = [config_lock EXCEPT ![d] = @ \ {"client"}]
    /\ reload_pc' = [reload_pc EXCEPT ![d] = "idle"]
    /\ UNCHANGED <<folder_references, loopVars, lifeVars, storeVars,
                   daemonVars, clientVars, commands, ops, in_flight, editVars>>

ReloadStep(d) ==
    \/ ReloadLock(d)
    \/ ReloadReset(d)

\* the worker reports the release of a key
KeyReleased(d) ==
    /\ WorkerKey(d)
    /\ ~key_chan'[d][Len(key_chan'[d])][2]

NextOrder ==
    \/ KeyReleased(Device)
    \/ LockStep(Device)
    \/ ReloadRead(Device)
    \/ ReloadStep(Device)

SpecOrder ==
    /\ InitLock /\ [][NextOrder]_vars
    /\ WF_vars(LockStep(Device)) /\ WF_vars(ReloadStep(Device))

\* the lock of the stack of d is held by thread t
HoldsStack(d, t) == stack_lock[d] = t
\* thread t takes a guard of the configuration of d
TakesConfig(d, t) == t \notin config_lock[d] /\ t \in config_lock'[d]

\* C21: no thread takes the configuration lock of a device while it holds
\* the lock of the device's panel stack, and a reload and a key dispatch
\* running together both come to their end
C21_ConfigBeforeStack ==
    /\ [][\A d \in Serials : \A t \in {"loop", "client"} :
            TakesConfig(d, t) => ~HoldsStack(d, t)]_vars
    /\ (reload_pc[Device] # "idle") ~> (reload_pc[Device] = "idle")
    /\ (pc[Device] \in {"resolve", "event", "call"}) ~> (pc[Device] = "check")
\* a reload holds the configuration and the lock of the stack while the
\* dispatch of a key waits with a folder to open
C21_Witness ==
    /\ reload_pc[Device] = "second"
    /\ "client" \in config_lock[Device]
    /\ stack_lock[Device] = "client"
    /\ pc[Device] = "event"
    /\ in_flight[Device].calls = <<"push_screen">>

(***************************************************************************)
(* Deleting folders (FolderModule::delete_folder_recursively).             *)
(***************************************************************************)
\* delete_folder: the folder map without the folder
delete_folder(folders, folder_id) ==
    [x \in DOMAIN folders \ {folder_id} |-> folders[x]]

\* a walk that never finds a folder in ids
VisitedNever(ids, id) == FALSE
\* ids.contains(&folder.id)
Visited(ids, id) == id \in ids

\* the order in which folder.buttons, a hash map, is gone through
RECURSIVE KeysIn(_, _)
KeysIn(order, S) ==
    IF S = {} THEN <<>>
    ELSE LET k == IF order = "up"
                  THEN CHOOSE x \in S : \A y \in S : x <= y
                  ELSE CHOOSE x \in S : \A y \in S : x >= y
         IN <<k>> \o KeysIn(order, S \ {k})

\* the nested calls one call of delete_folder_recursively may make before
\* the walk is taken not to end
MaxNesting == Cardinality(FolderIds) + 2

\* delete_folder_recursively(core, folder_id, ids) on st = the folder map,
\* ids, and whether the walk stayed within MaxNesting; the loop over the
\* buttons is ForEachButton
RECURSIVE delete_folder_recursively(_, _, _, _)
RECURSIVE ForEachButton(_, _, _, _, _)
delete_folder_recursively(st, folder_id, order, fuel) ==
    IF fuel = 0 THEN [st EXCEPT !.ok = FALSE]
    ELSE IF folder_id \notin DOMAIN st.folders THEN st
    ELSE LET folder == st.folders[folder_id]
             after == ForEachButton(st, folder.buttons,
                                    KeysIn(order, DOMAIN folder.buttons),
                                    order, fuel - 1)
         IN [after EXCEPT !.folders = delete_folder(@, folder_id)]
ForEachButton(st, buttons, keys, order, fuel) ==
    IF keys = <<>> \/ ~st.ok THEN st
    ELSE LET id == buttons[Head(keys)].folder
             walked ==
                IF id # None /\ ~Visited(st.ids, id)
                THEN delete_folder_recursively(
                        [st EXCEPT !.ids = @ \cup {id}], id, order, fuel)
                ELSE st
         IN ForEachButton(walked, buttons, Tail(keys), order, fuel)

\* delete_folder_recursively(core, id, &mut HashSet::new())
DeleteFrom(folders, id, order) ==
    delete_folder_recursively([folders |-> folders, ids |-> {}, ok |-> TRUE],
                              id, order, MaxNesting)

\* the module deletes the folder and what it holds from the stored folders
\* of the device
DeleteFolder(d, id, order) ==
    /\ kind[d] # "none"
    /\ OpCount < MaxOps
    /\ device_config' = [device_config EXCEPT
            ![d].folders = DeleteFrom(@, id, order).folders]
    /\ snapshot' = [snapshot EXCEPT !["value"] =
            [NoEdit EXCEPT !.kind = "delete", !.folder = id, !.name = order,
                           !.found = has_folder(d, id),
                           !.contents = IF has_folder(d, id)
                                        THEN get_folder(d, id) ELSE @]]
    /\ Count(d, "edit")
    /\ UNCHANGED <<stackVars, loaded_configs, disk, loopVars, lifeVars,
                   daemonVars, clientVars, commands, lockVars, edit_pc>>

\* the stored folder maps deleted from: folders f1, f2, f9, each absent or
\* with two buttons, Folder buttons to any of the three, a Folder Up or a
\* link
GraphIds == {"f1", "f2", "f9"}
GraphPanels ==
    {Panel("Folder", None, (0 :> b0) @@ (1 :> b1)) :
        b0 \in {FolderBtn(g, "n") : g \in GraphIds} \cup {UpBtn},
        b1 \in {FolderBtn(g, "n") : g \in GraphIds} \cup {LinkBtn("f1")}}
Graphs ==
    UNION {[S -> GraphPanels] : S \in SUBSET GraphIds}

InitDelete ==
    /\ InitCoresWith(OneCore("bound"),
                     [d \in Serials |-> IF d = Device THEN <<1>> ELSE <<>>],
                     <<ConfigA.layout>>)
    /\ \E g \in Graphs :
          device_config = [d \in Serials |->
              IF d = Device THEN [WithSerial(ConfigA, d) EXCEPT !.folders = g]
              ELSE WithSerial(ConfigA, d)]
    /\ loaded_configs = {Device}
    /\ disk = [d \in Serials |-> WithSerial(ConfigA, d)]
    /\ InitDaemon /\ InitClient("", "idle")

NextDelete ==
    \E id \in GraphIds, order \in {"up", "down"} : DeleteFolder(Device, id, order)

SpecDelete == InitDelete /\ [][NextDelete]_vars

\* the folders reached from the folders of S through Folder components
RECURSIVE Reach(_, _)
Reach(folders, S) ==
    LET next == S \cup
            {folders[x].buttons[k].folder :
                <<x, k>> \in {p \in (S \cap DOMAIN folders) \X Keys :
                                p[2] \in DOMAIN folders[p[1]].buttons}}
        more == (next \ {None}) \cup S
    IN IF more = S THEN S ELSE Reach(folders, more)

\* a delete_folder_recursively has run on the device
DeleteStep(d) ==
    /\ ops'[d].edit = ops[d].edit + 1
    /\ snapshot'["value"].kind = "delete"

\* C29: delete_folder_recursively ends on every folder map, with Folder
\* buttons that point at their own folder or at each other in a cycle too;
\* after it the folder it started from and the folders reached from it
\* through Folder components are gone, and every other folder is as before
C29_DeleteReachable ==
    [][DeleteStep(Device) =>
        LET folders == device_config[Device].folders
            id == snapshot'["value"].folder
            gone == IF id \in DOMAIN folders THEN Reach(folders, {id}) ELSE {}
            left == device_config'[Device].folders
        IN /\ DeleteFrom(folders, id, snapshot'["value"].name).ok
           /\ DOMAIN left = DOMAIN folders \ gone
           /\ \A x \in DOMAIN left : left[x] = folders[x]]_vars
\* f1 held a Folder button to itself and one to f2; f1 was deleted, and of
\* the three folders f9 is left
C29_Witness ==
    /\ snapshot["value"].kind = "delete"
    /\ snapshot["value"].folder = "f1"
    /\ snapshot["value"].found
    /\ snapshot["value"].contents.buttons[0] = FolderBtn("f1", "n")
    /\ snapshot["value"].contents.buttons[1] = FolderBtn("f2", "n")
    /\ ops[Device].edit = 1
    /\ DOMAIN device_config[Device].folders = {"f9"}
    /\ device_config[Device].folders["f9"].buttons[0] = UpBtn
    /\ device_config[Device].folders["f9"].buttons[1] = LinkBtn("f1")

(***************************************************************************)
(* Keys pressed after a folder was deleted.                                *)
(***************************************************************************)
\* FolderModule::remove_component, "folder", on the button at a key of the
\* active frame: the folder of the component is deleted with what it holds,
\* and the button loses the component
remove_component(d, key) ==
    /\ kind[d] # "none" /\ HasButton(d, key)
    /\ ButtonAt(d, key).folder # None
    /\ OpCount < MaxOps
    /\ device_config' = [device_config EXCEPT
            ![d].folders = DeleteFrom(@, ButtonAt(d, key).folder, "up").folders]
    /\ panels' = [panels EXCEPT ![Top(d)].buttons[key] =
                        [@ EXCEPT !.folder = None, !.name = None]]
    /\ Did(d, "edit")
    /\ UNCHANGED <<current_stack, folder_references, loaded_configs, disk,
                   loopVars, lifeVars, daemonVars, clientVars, commands>>

\* between two key releases a client removes a Folder component, or pops
\* the active frame
RemoveFolder(d) == \E key \in Keys : Quiet /\ remove_component(d, key)
ClientPop(d) == Quiet /\ PopScreen(d)

NextFolders ==
    \/ ReleaseKey(Device)
    \/ LoopCheck(Device)
    \/ LoopDispatch(Device)
    \/ RemoveFolder(Device)
    \/ ClientPop(Device)

SpecFolders == InitLock /\ [][NextFolders]_vars

\* the folder was stored for the device and has been deleted
Deleted(d, id) == id \in DOMAIN ConfigA.folders /\ ~has_folder(d, id)

\* C27: the release of a key whose button is a Folder or a Folder Link to a
\* deleted folder pushes no frame, whether or not the folder was opened
\* before it was deleted
C27_DeletedFolderNotOpened ==
    [][\A d \in Serials :
        (/\ DispatchStep(d)
         /\ LastDispatched(d).act \in {"folder", "link"}
         /\ Deleted(d, FolderOf(ButtonAt(d, LastDispatched(d).key))))
            => current_stack'[d] = current_stack[d]]_vars

(***************************************************************************)
(* Two threads editing the stored folders of one device.  Each reads a     *)
(* folder with get_folder and later writes with update_folder; each of     *)
(* the two calls holds the lock of device_config for itself only.          *)
(***************************************************************************)
\* update_folder: insert into the folder map as it is now
update_folder(folders, folder_id, folder_content) ==
    (folder_id :> folder_content) @@ folders

\* the folder a paste makes when the reference folder is not stored
DefaultFolder == [display_name |-> "Folder", data |-> None, buttons |-> <<>>]

\* what a thread writes from the folder it read
Written(op) ==
    IF op.kind = "button"
    THEN [op.contents EXCEPT !.buttons = (op.key :> EditedBtn) @@ @]
    ELSE IF op.kind = "rename"
    THEN [op.contents EXCEPT !.display_name = op.name]
    ELSE op.contents

\* the operations: a button added or updated in the frame of folder X
\* (event), a rename of folder X or a paste of a Folder button of X under
\* the new id f9 (set_component_value, paste_component)
EditOps(t) ==
    IF t = "event"
    THEN {[NoEdit EXCEPT !.kind = "button", !.folder = x, !.key = k] :
            x \in {"f1", "f2"}, k \in Keys}
    ELSE {[NoEdit EXCEPT !.kind = "rename", !.folder = x, !.name = n] :
            x \in {"f1", "f2"}, n \in {"Renamed", "Again"}}
         \cup {[NoEdit EXCEPT !.kind = "paste", !.folder = x, !.name = "f9"] :
            x \in {"f1", "f2"}}

\* get_folder: the thread reads the folder of its operation
GetFolder(d, t) ==
    /\ kind[d] # "none"
    /\ edit_pc[t] = "idle"
    /\ \E op \in EditOps(t) :
          snapshot' = [snapshot EXCEPT ![t] =
              [op EXCEPT !.found = has_folder(d, op.folder),
                         !.contents = IF has_folder(d, op.folder)
                                      THEN get_folder(d, op.folder)
                                      ELSE DefaultFolder]]
    /\ edit_pc' = [edit_pc EXCEPT ![t] = "got"]
    /\ UNCHANGED <<stackVars, loopVars, lifeVars, storeVars, daemonVars,
                   clientVars, commands, ops, lockVars>>

\* update_folder: the thread writes the changed folder; a button event and
\* a rename write only a folder they found, a paste writes under the new id
UpdateFolder(d, t) ==
    /\ edit_pc[t] = "got"
    /\ LET op == snapshot[t]
           to == IF op.kind = "paste" THEN op.name ELSE op.folder
       IN device_config' =
            IF op.found \/ op.kind = "paste"
            THEN [device_config EXCEPT
                    ![d].folders = update_folder(@, to, Written(op))]
            ELSE device_config
    /\ edit_pc' = [edit_pc EXCEPT ![t] = "done"]
    /\ UNCHANGED <<stackVars, loaded_configs, disk, loopVars, lifeVars,
                   daemonVars, clientVars, commands, ops, lockVars, snapshot>>

NextEdit ==
    \E t \in Threads :
        \/ GetFolder(Device, t)
        \/ UpdateFolder(Device, t)

SpecEdit == InitLock /\ [][NextEdit]_vars

\* the folder map after the whole operation, run alone
Alone(folders, op) ==
    IF op.kind = "paste"
    THEN update_folder(folders, op.name,
                       IF op.folder \in DOMAIN folders
                       THEN folders[op.folder] ELSE DefaultFolder)
    ELSE IF op.folder \in DOMAIN folders
    THEN update_folder(folders, op.folder,
                       Written([op EXCEPT !.contents = folders[op.folder]]))
    ELSE folders

\* C28: when a button event for a folder and an operation that rewrites the
\* folder map have run on two threads, the stored folders hold both
\* changes: they are what the two operations give one after the other
C28_NoLostUpdate ==
    (edit_pc["event"] = "done" /\ edit_pc["value"] = "done") =>
        device_config[Device].folders \in
            {Alone(Alone(ConfigA.folders, snapshot["event"]), snapshot["value"]),
             Alone(Alone(ConfigA.folders, snapshot["value"]), snapshot["event"])}

(***************************************************************************)
(* The folder module's components on a button: add_component and           *)
(* remove_component, called by a client on a button of the active frame.   *)
(***************************************************************************)
\* a button that holds no component of the folder module
PlainBtn == Btn(None, None, None, FALSE)
PlainLayout == Panel("root", None, [k \in Keys |-> PlainBtn])

\* the component names a client may pass; "other" is no component of the
\* folder module
ComponentNames == {"folder", "folder_link", "folder_up", "other"}

\* Button::contains: the component bag is keyed by component name
contains(button, name) ==
    CASE name = "folder" -> button.folder # None
      [] name = "folder_link" -> button.link # None
      [] name = "folder_up" -> button.up
      [] OTHER -> FALSE

\* FolderModule::new_folder: an empty folder "Folder" under a fresh name
new_folder(folders, str) == (str :> Panel("Folder", None, <<>>)) @@ folders

\* add_component that inserts without looking at the other component
add_component_unchecked(button, name, folder_id) ==
    CASE name = "folder" ->
            [button EXCEPT !.folder = folder_id, !.name = "Folder"]
      [] name = "folder_link" -> [button EXCEPT !.link = ""]
      [] name = "folder_up" -> [button EXCEPT !.up = TRUE]
      [] OTHER -> button

\* FolderModule::add_component on the button; folder_id is the name
\* new_folder returned
add_component(button, name, folder_id) ==
    CASE name = "folder" ->
            IF ~contains(button, "folder_link")
            THEN [button EXCEPT !.folder = folder_id, !.name = "Folder"]
            ELSE button
      [] name = "folder_link" ->
            IF ~contains(button, "folder")
            THEN [button EXCEPT !.link = ""]
            ELSE button
      [] name = "folder_up" -> [button EXCEPT !.up = TRUE]
      [] OTHER -> button

\* Button::remove_component::<T> for the component of that name
remove_from(button, name) ==
    CASE name = "folder" -> [button EXCEPT !.folder = None, !.name = None]
      [] name = "folder_link" -> [button EXCEPT !.link = None]
      [] name = "folder_up" -> [button EXCEPT !.up = FALSE]
      [] OTHER -> button

\* a client adds the component to the button at a key of the active frame;
\* a Folder component on a button without a link makes a new stored folder
AddComponent(d, key, name) ==
    /\ kind[d] # "none" /\ HasButton(d, key)
    /\ OpCount < MaxOps
    /\ LET button == ButtonAt(d, key)
           makes == name = "folder" /\ ~contains(button, "folder_link")
       IN \E str \in IF makes THEN GraphIds \ DOMAIN device_config[d].folders
                     ELSE {""} :
            /\ device_config' =
                  IF makes
                  THEN [device_config EXCEPT ![d].folders = new_folder(@, str)]
                  ELSE device_config
            /\ panels' = [panels EXCEPT ![Top(d)].buttons[key] =
                              add_component(button, name, str)]
    /\ snapshot' = [snapshot EXCEPT !["value"] =
            [NoEdit EXCEPT !.kind = "add", !.name = name, !.key = key]]
    /\ Count(d, "edit")
    /\ UNCHANGED <<current_stack, folder_references, loaded_configs, disk,
                   loopVars, lifeVars, daemonVars, clientVars, commands,
                   lockVars, edit_pc>>

\* a client removes the component from the button at a key of the active
\* frame; the folder of a Folder component is deleted with what it holds
RemoveComponent(d, key, name) ==
    /\ kind[d] # "none" /\ HasButton(d, key)
    /\ OpCount < MaxOps
    /\ LET button == ButtonAt(d, key)
       IN /\ device_config' =
                IF name = "folder" /\ contains(button, "folder")
                THEN [device_config EXCEPT
                        ![d].folders = DeleteFrom(@, button.folder, "up").folders]
                ELSE device_config
          /\ panels' = [panels EXCEPT ![Top(d)].buttons[key] =
                            remove_from(button, name)]
    /\ snapshot' = [snapshot EXCEPT !["value"] =
            [NoEdit EXCEPT !.kind = "remove", !.name = name, !.key = key]]
    /\ Count(d, "edit")
    /\ UNCHANGED <<current_stack, folder_references, loaded_configs, disk,
                   loopVars, lifeVars, daemonVars, clientVars, commands,
                   lockVars, edit_pc>>

\* the device with a root layout of plain buttons and no stored folder
PlainConfig == [ConfigA EXCEPT !.layout = PlainLayout, !.folders = <<>>]

InitComponents ==
    /\ InitCoresWith(OneCore("bound"),
                     [d \in Serials |-> IF d = Device THEN <<1>> ELSE <<>>],
                     <<PlainLayout>>)
    /\ device_config = [d \in Serials |-> WithSerial(PlainConfig, d)]
    /\ loaded_configs = {Device}
    /\ disk = [d \in Serials |-> WithSerial(PlainConfig, d)]
    /\ InitDaemon /\ InitClient("", "idle")

NextComponents ==
    \E key \in Keys, name \in ComponentNames :
        \/ AddComponent(Device, key, name)
        \/ RemoveComponent(Device, key, name)

SpecComponents == InitComponents /\ [][NextComponents]_vars

\* C32: a button that started with neither component never holds a Folder
\* component and a Folder Link component at the same time, whatever
\* add_component and remove_component calls were made on it
C32_FolderOrLinkNeverBoth ==
    \A i \in DOMAIN panels : \A k \in DOMAIN panels[i].buttons :
        ~(contains(panels[i].buttons[k], "folder")
            /\ contains(panels[i].buttons[k], "folder_link"))

\* a Folder Link was asked for on a button that holds a Folder component,
\* and the button still holds the Folder component alone
C32_Witness ==
    /\ snapshot["value"].kind = "add"
    /\ snapshot["value"].name = "folder_link"
    /\ contains(ButtonAt(Device, snapshot["value"].key), "folder")
    /\ ~contains(ButtonAt(Device, snapshot["value"].key), "folder_link")

(***************************************************************************)
(* Button events of a folder frame (FolderModule::event, ButtonAdded,      *)
(* ButtonUpdated and ButtonDeleted): the stored folder follows the live    *)
(* panel.                                                                  *)
(***************************************************************************)
\* a map without the key
Without(buttons, key) == [j \in DOMAIN buttons \ {key} |-> buttons[j]]

\* the ButtonDeleted arm: the stored folder of the panel loses the key, and
\* the folder of a deleted Folder button is deleted with what it holds
ButtonDeleted(d, key, deleted_button, panel, order) ==
    LET removed ==
            IF panel.data # None /\ has_folder(d, panel.data)
            THEN [device_config EXCEPT
                    ![d].folders[panel.data].buttons = Without(@, key)]
            ELSE device_config
    IN IF deleted_button.folder # None
       THEN [removed EXCEPT
               ![d].folders = DeleteFrom(@, deleted_button.folder, order).folders]
       ELSE removed

\* what the event thread notes of the event it handled
Handled(event_kind, d, key, button, order) ==
    [NoEdit EXCEPT !.kind = event_kind, !.folder = panels[Top(d)].data,
                   !.key = key, !.name = order,
                   !.found = panels[Top(d)].data # None
                                /\ has_folder(d, panels[Top(d)].data),
                   !.contents = Panel("", None, (key :> button))]

\* a client sets a button of the active frame (ButtonAdded on a free key,
\* ButtonUpdated on a taken one), and the module handles the event
ButtonAddedEvent(d, key, added_button) ==
    /\ kind[d] # "none" /\ current_stack[d] # <<>>
    /\ edit_pc["event"] = "idle"
    /\ panels' = [panels EXCEPT ![Top(d)].buttons = (key :> added_button) @@ @]
    /\ device_config' = ButtonAdded(d, key, added_button, panels[Top(d)])
    /\ snapshot' = [snapshot EXCEPT !["event"] =
                        Handled("added", d, key, added_button, "")]
    /\ edit_pc' = [edit_pc EXCEPT !["event"] = "done"]
    /\ Count(d, "edit")
    /\ UNCHANGED <<current_stack, folder_references, loaded_configs, disk,
                   loopVars, lifeVars, daemonVars, clientVars, commands,
                   lockVars>>

\* a client clears a button of the active frame, and the module handles the
\* event
ButtonDeletedEvent(d, key, order) ==
    /\ kind[d] # "none" /\ HasButton(d, key)
    /\ edit_pc["event"] = "idle"
    /\ panels' = [panels EXCEPT ![Top(d)].buttons = Without(@, key)]
    /\ device_config' =
            ButtonDeleted(d, key, ButtonAt(d, key), panels[Top(d)], order)
    /\ snapshot' = [snapshot EXCEPT !["event"] =
                        Handled("deleted", d, key, ButtonAt(d, key), order)]
    /\ edit_pc' = [edit_pc EXCEPT !["event"] = "done"]
    /\ Count(d, "edit")
    /\ UNCHANGED <<current_stack, folder_references, loaded_configs, disk,
                   loopVars, lifeVars, daemonVars, clientVars, commands,
                   lockVars>>

\* the frame of folder f1 is open over the root; the stored folders are any
\* of the folder maps, and the live panel is the stored folder tagged with
\* its id (a folder that is no longer stored left its panel behind)
LivePanel(g, id) ==
    IF id \in DOMAIN g
    THEN [g[id] EXCEPT !.data = id]
    ELSE Panel("Folder", id, (0 :> UpBtn))

InitEvents ==
    \E g \in Graphs :
        /\ InitCoresWith(OneCore("bound"),
                         [d \in Serials |-> IF d = Device THEN <<1, 2>> ELSE <<>>],
                         <<ConfigA.layout, LivePanel(g, "f1")>>)
        /\ device_config = [d \in Serials |->
              IF d = Device THEN [WithSerial(ConfigA, d) EXCEPT !.folders = g]
              ELSE WithSerial(ConfigA, d)]
        /\ loaded_configs = {Device}
        /\ disk = [d \in Serials |-> WithSerial(ConfigA, d)]
        /\ InitDaemon /\ InitClient("", "idle")

NextEvents ==
    \E key \in Keys :
        \/ \E added_button \in {EditedBtn, UpBtn, FolderBtn("f2", "n")} :
                ButtonAddedEvent(Device, key, added_button)
        \/ \E order \in {"up", "down"} : ButtonDeletedEvent(Device, key, order)

SpecEvents == InitEvents /\ [][NextEvents]_vars

\* the folders a button owns: those reached from the folder of its Folder
\* component through Folder components
Owned(folders, button) ==
    IF button.folder = None THEN {} ELSE Reach(folders, {button.folder})

\* the folder is stored, or missing, on both sides and is the same
SameFolder(before, after, id) ==
    /\ (id \in DOMAIN before) = (id \in DOMAIN after)
    /\ id \in DOMAIN before => before[id] = after[id]

\* the folder is stored on both sides and differs at most at the key
SameButAt(before, after, id, key) ==
    /\ id \in DOMAIN after
    /\ after[id].display_name = before[id].display_name
    /\ after[id].data = before[id].data
    /\ DOMAIN after[id].buttons \ {key} = DOMAIN before[id].buttons \ {key}
    /\ \A j \in DOMAIN before[id].buttons \ {key} :
            after[id].buttons[j] = before[id].buttons[j]

\* the effect the event is to have on the stored folders
EventEffect(before, after, e) ==
    LET button == e.contents.buttons[e.key]
        others == (DOMAIN before \cup DOMAIN after) \ {e.folder}
    IN IF e.kind = "added"
       THEN /\ SameButAt(before, after, e.folder, e.key)
            /\ e.key \in DOMAIN after[e.folder].buttons
            /\ after[e.folder].buttons[e.key] = button
            /\ \A y \in others : SameFolder(before, after, y)
       ELSE /\ SameButAt(before, after, e.folder, e.key)
            /\ e.key \notin DOMAIN after[e.folder].buttons
            /\ \A y \in others \ Owned(before, button) :
                    SameFolder(before, after, y)

\* C31: for a live panel tagged with a stored folder, a ButtonAdded or
\* ButtonUpdated event for a key leaves the stored folder with that button
\* at the key, a ButtonDeleted event leaves it with no entry at the key;
\* the other keys of the folder, its name and data, and every other folder
\* the deleted button does not own stay as they were
C31_EventChangesOneKey ==
    [][(edit_pc["event"] = "idle" /\ edit_pc'["event"] = "done"
            /\ snapshot'["event"].found)
        => EventEffect(device_config[Device].folders,
                       device_config'[Device].folders,
                       snapshot'["event"])]_vars

====
